---- MODULE Spec2Model ----
(***************************************************************************)
(* Scheduler, agent lifecycle and merge queue of the SplitMind dashboard   *)
(* backend (dashboard/backend/orchestrator.py, merge_queue.py,             *)
(* project_manager.py, task_config.py, api.py).                            *)
(*                                                                         *)
(* The task store (tasks.md) is the pair status/session plus the static    *)
(* per-task fields chosen in Init.  One scheduler tick is the four awaited *)
(* stages of _orchestrator_loop, sequenced by pc; agents (tmux sessions)   *)
(* and the HTTP API act between the stages.                                *)
(***************************************************************************)
EXTENDS Integers, Sequences, FiniteSets, TLC

\* ------------------------------------------------------------------ bounds
MaxSpawns == 1   \* sessions started per task

\* ---------------------------------------------------------------- defaults
\* Project.max_agents and OrchestratorConfig.max_concurrent_agents
DefaultMaxAgents == 5
DefaultMaxConcurrentAgents == 5

\* ----------------------------------------------------------- task fixture
\* task_id of the tasks a project may hold
AllTasks == {1, 2, 3}

\* id derived from the title by get_tasks: title.lower().replace(" ", "-")
IdOf(t) ==
  CASE t = 1 -> "base-html"
    [] t = 2 -> "header-component"
    [] OTHER -> "my-feature"

\* the id add_task returns for task 1, f"{task_id}-{project.id}", under which
\* a generated plan stores a dependency on it; get_tasks gives the task the
\* id derived from its title, so this id names no task of the project
GhostId == "1-project"

\* the absent session (written "null" in tasks.md)
None == 0

\* session name given to the agent of task t: f"{task.task_id}-{pm.project.id}"
SessionName(t) == t

\* exclusive_files / shared_files as stored with the task
exclusive_files(t) ==
  CASE t = 1 -> {"index.html"}
    [] t = 2 -> {"components/header.css"}
    [] OTHER -> {"index.html"}

shared_files(t) ==
  CASE t = 2 -> {"index.html"}
    [] OTHER -> {}

\* TASK_DEFINITIONS, restricted to the ids used here
TASK_DEFINITIONS ==
  [id \in {"base-html", "header-component"} |->
     IF id = "base-html"
       THEN [exclusive_files |-> {"index.html"}, shared_files |-> {}]
       ELSE [exclusive_files |-> {"components/header.css"},
             shared_files    |-> {"index.html"}]]

can_tasks_run_concurrently(task1_id, task2_id) ==
  IF task1_id \notin DOMAIN TASK_DEFINITIONS \/ task2_id \notin DOMAIN TASK_DEFINITIONS
    THEN TRUE
    ELSE LET task1 == TASK_DEFINITIONS[task1_id]
             task2 == TASK_DEFINITIONS[task2_id]
         IN  /\ task1.exclusive_files \cap task2.exclusive_files = {}
             /\ task1.exclusive_files \cap task2.shared_files = {}
             /\ task2.exclusive_files \cap task1.shared_files = {}

\* ---------------------------------------------------------------- helpers
min(a, b) == IF a < b THEN a ELSE b

\* lexicographic <= on pairs of integers (Python tuple comparison)
KeyLE(k1, k2) == k1[1] < k2[1] \/ (k1[1] = k2[1] /\ k1[2] <= k2[2])

RECURSIVE InsertStable(_, _, _)
InsertStable(s, x, key) ==
  IF s = <<>> THEN <<x>>
  ELSE IF KeyLE(key[s[Len(s)]], key[x]) THEN Append(s, x)
  ELSE Append(InsertStable(SubSeq(s, 1, Len(s) - 1), x, key), s[Len(s)])

\* list.sort(key=...): stable sort of s by key
RECURSIVE sorted(_, _)
sorted(s, key) ==
  IF s = <<>> THEN <<>>
  ELSE InsertStable(sorted(SubSeq(s, 1, Len(s) - 1), key), s[Len(s)], key)

RECURSIVE Filter(_, _)
Filter(s, S) ==
  IF s = <<>> THEN <<>>
  ELSE IF s[1] \in S THEN <<s[1]>> \o Filter(Tail(s), S)
  ELSE Filter(Tail(s), S)

Range(s) == {s[i] : i \in 1..Len(s)}

Prefix(s, n) == SubSeq(s, 1, n)

\* ------------------------------------------------------ coordination store
\* the files the fixture's tasks declare
Files == UNION {exclusive_files(t) \cup shared_files(t) : t \in AllTasks}

\* git diff --name-only main <branch>: a branch changes the files its task
\* declares
get_modified_files(t) == exclusive_files(t) \cup shared_files(t)

\* a session that belongs to no task of the project
OtherSession == 4

\* the phrases negotiate_file_access looks for in the holder's reply
AffirmativePhrases == {"done", "finished", "released", "go ahead"}

\* replies of a lock holder to the merge_request query, as the set of
\* phrases the reply contains; {} is no reply
Replies == {{}, {"done"}, {"minute"}, {"busy"}}

\* what the coordination store holds for one file: the session that locked
\* it (None when unlocked), the holder's reply to a query, and whether the
\* check_file_lock call fails
Lock(locked_by, reply, fails) == [locked_by |-> locked_by, reply |-> reply, fails |-> fails]

Unlocked == Lock(None, {}, FALSE)

LockStates ==
  {Lock(h, r, e) : h \in {None, SessionName(1), OtherSession}, r \in Replies, e \in BOOLEAN}

\* the fields class Task declares
TaskFields ==
  {"id", "task_id", "title", "description", "prompt", "status", "branch",
   "session", "dependencies", "priority", "merge_order", "exclusive_files",
   "shared_files", "initialization_deps", "created_at", "updated_at",
   "completed_at", "merged_at"}

\* hasattr(task, name) on a Task object
hasattr_task(name) == name \in TaskFields

\* ------------------------------------------------------------------ state
VARIABLES
  status,                \* tasks.md: status of each task
  session,               \* tasks.md: session of each task, or None
  dependencies,          \* tasks.md: dependency ids of each task
  priority,              \* tasks.md: priority of each task
  merge_order,           \* tasks.md: merge_order of each task
  max_concurrent_agents, \* OrchestratorConfig.max_concurrent_agents
  max_agents,            \* Project.max_agents
  auto_merge,            \* OrchestratorConfig.auto_merge
  merge_queue,           \* OrchestratorManager.merge_queue: "None" or "MergeQueue"
  queue,                 \* MergeQueue.queue, as the sequence of queued tasks
  tmux,                  \* live tmux sessions
  status_file,           \* /tmp/splitmind-status/<session>.status
  commits,               \* tasks whose branch has commits ahead of main
  completed_tasks,       \* Redis hash splitmind:<project>:completed_tasks
  main,                  \* merge commits on main, oldest first
  tasks,                 \* the loop's `tasks` list (orchestrator.py:142)
  pc,                    \* stage the loop will run next
  events,                \* messages broadcast by the last operation
  writes,                \* status updates made by the last operation
  lastOp,                \* the last operation
  spawned,               \* sessions started so far for each task
  died,                  \* tasks the last status check found dead without work
  drains,                \* the tasks each process_queue run of the last
                         \* operation examined, in the order of examination
  locks,                 \* coordination store: the lock on each file
  can_merge,             \* the last call of A2AMCPMergeQueue.can_merge_task
                         \* and what it returned
  running,               \* OrchestratorManager.running
  current_project_id,    \* OrchestratorManager.current_project_id, or "None"
  start_call             \* the last call of start() and what it raised

\* the tasks of the project: the tasks tasks.md holds
Tasks == DOMAIN status

\* the dashboard's WebSocketManager
VARIABLES
  active_connections,    \* WebSocketManager.active_connections, in list order
  received,              \* the messages each websocket has been sent, in order
  closed,                \* websockets whose send_text raises
  broadcasts,            \* the broadcast call each caller is suspended in
  sending,               \* for each websocket, the callers awaiting its
                         \* send_text, in the order they called it
  audience               \* for each broadcast call so far, in call order, the
                         \* websockets connected when it was called

\* tasks.md as ProjectManager reads and writes it
VARIABLES
  tasks_file,            \* the "## Task:" sections of tasks.md, in file order,
                         \* each with the text of its "- key: value" lines
  loaded,                \* the task list the last ProjectManager call built
  last_call,             \* the last ProjectManager call and how it ended
  assigned               \* the tasks add_task has returned so far, in order

\* the coordination server (complete-mcp-server-redis.py) and its Redis store
VARIABLES
  redis,                 \* the hashes splitmind:<project>:agents, :heartbeat,
                         \* :todos:<session> and the list :messages:<session>
  clock,                 \* datetime.now(), in milliseconds
  in_flight,             \* the tool call each client has in flight
  response,              \* the response the server returned last
  mcp_history            \* what the clients have called so far

\* the file locks of the coordination server
VARIABLES
  file_locks,            \* the key splitmind:<project>:files:<path> of each
                         \* file: its holder and the time its TTL has left
  lock_call              \* the last file coordination call and its response

\* the Redis keys of the coordination server, for several projects
VARIABLES
  keyspace,              \* the hash each key holds: a set of fields with values
  key_call               \* the last tool call, and the calls made so far

\* a conflicted file the merge queue resolves
VARIABLES
  conflict,              \* the versions git has staged: base (:1:), ours (:2:)
                         \* and theirs (:3:)
  resolved               \* what the resolver wrote and returned

\* one call of MergeQueue.merge_task, seen at the level of the git commands
VARIABLES
  attempt,               \* what git does in this call: how git merge ends,
                         \* the status of the unmerged paths, what the
                         \* resolvers return, whether git commit goes through
  merge_result           \* what merge_task returned and left in the repository

scheduler == <<status, session, dependencies, priority, merge_order,
               max_concurrent_agents, max_agents, auto_merge, merge_queue,
               queue, tmux, status_file, commits, completed_tasks, main,
               tasks, pc, events, writes, lastOp, spawned, died, drains,
               locks, can_merge, running, current_project_id, start_call>>

websocket == <<active_connections, received, closed, broadcasts, sending, audience>>

tasks_md == <<tasks_file, loaded, last_call, assigned>>

\* the state outside the orchestrator loop
mcp == <<redis, clock, in_flight, response, mcp_history>>

file_coordination == <<file_locks, lock_call>>

project_keys == <<keyspace, key_call>>

\* the services the later sections add
resolution == <<conflict, resolved>>

git_merge == <<attempt, merge_result>>

other_services == <<file_coordination, project_keys, resolution, git_merge>>

\* what the file coordination calls and the keyed calls leave alone
beside_file_coordination == <<websocket, tasks_md, mcp, scheduler, project_keys, resolution, git_merge>>
beside_project_keys == <<websocket, tasks_md, mcp, scheduler, file_coordination, resolution, git_merge>>
beside_resolution == <<websocket, tasks_md, mcp, scheduler, file_coordination, project_keys, git_merge>>
beside_git_merge == <<websocket, tasks_md, mcp, scheduler, file_coordination, project_keys, resolution>>

services == <<websocket, tasks_md, mcp, other_services>>

vars == <<scheduler, services>>

config == <<dependencies, priority, merge_order, max_concurrent_agents,
            max_agents, auto_merge, merge_queue>>

world == <<tmux, status_file, commits, completed_tasks>>

coordination == <<locks, can_merge>>

lifecycle == <<running, current_project_id, start_call>>

\* the loop holds no task list between ticks
NoTasks == [status |-> <<>>, session |-> <<>>]

\* the projects explored: the tasks of tasks.md with their stored fields,
\* and the settings the orchestrator runs them with.  OrchestratorManager.start
\* builds the queue as MergeQueue(project.path, update_task_status) although
\* MergeQueue.__init__ takes the path only; the loop is explored both with
\* the queue start() means to build (merging) and with merge_queue = None.
Project(T, deps, prio, cap, agents, merging) ==
  [tasks |-> T, dependencies |-> deps, priority |-> prio,
   merge_order |-> [t \in AllTasks |-> 0],
   max_concurrent_agents |-> cap, max_agents |-> agents, merging |-> merging]

NoDeps == [t \in AllTasks |-> {}]
Chain  == [t \in AllTasks |-> IF t = 1 THEN {} ELSE {IdOf(t - 1)}]
Ghost  == [t \in AllTasks |-> IF t = 2 THEN {GhostId} ELSE {}]

Flat(n) == [t \in AllTasks |-> n]
Rising  == [t \in AllTasks |-> t]

Restrict(f, T) == [t \in T |-> f[t]]

\* two tasks, the second naming a dependency no task has, two agents at
\* most, merging on; two tasks outside TASK_DEFINITIONS' reach, one agent
\* at most, merging off
Projects ==
  { Project({1, 2}, Ghost, Flat(0), DefaultMaxConcurrentAgents, 2, TRUE),
    Project({1, 3}, NoDeps, Flat(0), 1, DefaultMaxAgents, FALSE) }

\* a chain of three tasks, three agents at most, merging on
ChainProjects ==
  { Project({1, 2, 3}, Chain, Rising, DefaultMaxConcurrentAgents, 3, TRUE) }

\* project P with the merge_order fields of its tasks set
Ordered(P, order) == [P EXCEPT !.merge_order = order]

\* two independent tasks, merging on: the task listed first has the larger
\* merge_order and one agent runs at a time; or both have merge_order 0 and
\* the task listed first has the smaller priority
OrderProjects ==
  { Ordered(Project({1, 3}, NoDeps, Flat(0), 1, DefaultMaxAgents, TRUE),
            [t \in AllTasks |-> IF t = 1 THEN 1 ELSE 0]),
    Project({1, 3}, NoDeps, Rising, DefaultMaxConcurrentAgents, DefaultMaxAgents, TRUE) }

\* tasks 1 and 2 depending on each other; task 1 depending on itself
Cycle == [t \in AllTasks |-> IF t = 3 THEN {} ELSE {IdOf(3 - t)}]
Self  == [t \in AllTasks |-> IF t = 1 THEN {IdOf(1)} ELSE {}]

\* two tasks in a dependency cycle and a free task; a task that depends on
\* itself and a free task; merging on
CycleProjects ==
  { Project({1, 2, 3}, Cycle, Flat(0), DefaultMaxConcurrentAgents, DefaultMaxAgents, TRUE),
    Project({1, 3}, Self, Flat(0), DefaultMaxConcurrentAgents, DefaultMaxAgents, TRUE) }

\* add_task stores every task as UNCLAIMED with no session
\* ------------------------------------------------------------- websockets
MaxBroadcasts == 2

\* the websockets that connect to /ws/updates
Sockets == {1, 2, 3}

\* the coroutines that broadcast: the orchestrator loop and an API handler
Callers == {"scheduler", "api"}

\* a caller that is in no broadcast call
NoBroadcast == [message |-> 0, connection |-> 0, i |-> 0, disconnected |-> <<>>]

\* WebSocketManager(): no connection yet
WebSocketManager ==
  /\ active_connections = <<>>
  /\ received = [s \in Sockets |-> <<>>]
  /\ closed = {}
  /\ broadcasts = [c \in Callers |-> NoBroadcast]
  /\ sending = [s \in Sockets |-> <<>>]
  /\ audience = <<>>

\* -------------------------------------------------------------- tasks.md
\* a field of a section that has no line
Absent == "<absent>"

\* Python's None in a string field, and in an integer field
Null == "<None>"
NoneInt == -100

NoCall == [op |-> "none", id |-> Null, error |-> Null]

\* no tasks.md yet
NoTasksFile ==
  /\ tasks_file = <<>>
  /\ loaded = <<>>
  /\ last_call = NoCall
  /\ assigned = <<>>

\* --------------------------------------------------- coordination server
MaxCalls == 3

\* the number of times the clock is advanced
MaxTicks == 1

\* timedelta(minutes=2), in milliseconds
TwoMinutes == 120000

\* the agents' tmux session names, the tasks they register for, the MCP
\* clients that call the server, and the todo texts they add
Sessions == {"task-1-agent", "task-2-agent"}
AgentTasks == {"task-1", "task-2"}
Clients == {"client-1", "client-2"}
TodoTexts == {"write tests", "update docs"}

\* a client with no call in flight, and no response returned yet
NoToolCall == [name |-> "none"]

\* hget of a field the hash does not hold
NoAgent == [task_id |-> Null, status |-> "none", started_at |-> NoneInt]
NoTodo == [id |-> NoneInt, task |-> Null, status |-> "none"]
NoResponse == [name |-> "none"]

\* an empty Redis, no call made yet
AgentCommunicationServer ==
  /\ redis = [agents    |-> [s \in Sessions |-> NoAgent],
              heartbeat |-> [s \in Sessions |-> NoneInt],
              todos     |-> [s \in Sessions |-> {}],
              messages  |-> [s \in Sessions |-> <<>>]]
  /\ clock = 0
  /\ in_flight = [c \in Clients |-> NoToolCall]
  /\ response = NoResponse
  /\ mcp_history = [calls |-> 0,
                    ticks |-> 0,
                    added |-> [s \in Sessions |-> <<>>],
                    other_todo_calls |-> [s \in Sessions |-> FALSE],
                    unregistered |-> [s \in Sessions |-> FALSE]]

\* ------------------------------------------------------ file coordination
\* the time a lock lives without a heartbeat, in steps of the store's clock
LockTtl == 2

\* the projects that share the coordination server, and the paths agents lock
ProjectIds == {"proj-a", "proj-b"}
LockPaths == {"src/main.py", "README.md"}

\* a key that does not exist
NoLock == [locked_by |-> Null, ttl |-> 0]

NoLockCall ==
  [name |-> "none", project_id |-> Null, session_name |-> Null,
   file_path |-> Null, status |-> "none", locked_by |-> Null]

\* no file is locked
FileCoordination ==
  /\ file_locks = [p \in ProjectIds |-> [f \in LockPaths |-> NoLock]]
  /\ lock_call = NoLockCall

\* ------------------------------------------------------------ Redis keys
\* a project id, a session name or a key is a text; the model holds it as
\* the sequence of its parts between colons, so "a:todos" is <<"a", "todos">>
KeyProjects == {<<"a">>, <<"a", "todos">>, <<"b">>}
KeySessions == {<<"agents">>, <<"task-1-agent">>}
KeyTasks == {<<"task-1">>}
KeyTodos == {<<"1700000000000">>}

\* _get_key: f"splitmind:{project_id}:{':'.join(parts)}"
_get_key(project_id, parts) == <<"splitmind">> \o project_id \o parts

RedisKeys ==
  UNION {{_get_key(p, <<"agents">>), _get_key(p, <<"heartbeat">>),
          _get_key(p, <<"completed_tasks">>)}
         \cup {_get_key(p, <<"todos">> \o s) : s \in KeySessions}
         \cup {_get_key(p, <<"messages">> \o s) : s \in KeySessions}
         : p \in KeyProjects}

NoKeyCall == [name |-> "none", project_id |-> <<>>, session_name |-> <<>>, calls |-> 0]

\* an empty Redis
EmptyRedis ==
  /\ keyspace = [k \in RedisKeys |-> {}]
  /\ key_call = NoKeyCall

\* ------------------------------------------------------ conflict resolvers
NoConflict == [base |-> <<>>, ours |-> <<>>, theirs |-> <<>>]

NotResolved == [returned |-> "none", file |-> <<>>]

NoConflictedFile ==
  /\ conflict = NoConflict
  /\ resolved = NotResolved

\* -------------------------------------------------------------- git merge
NoAttempt ==
  [merge |-> "none", status |-> <<>>, resolvers |-> <<>>, commit |-> FALSE]

NotMerged == [returned |-> "none", contains |-> FALSE, merging |-> FALSE, unmerged |-> {}]

NoMergeAttempt ==
  /\ attempt = NoAttempt
  /\ merge_result = NotMerged

ServicesInit ==
  /\ WebSocketManager
  /\ NoTasksFile
  /\ AgentCommunicationServer
  /\ FileCoordination
  /\ EmptyRedis
  /\ NoConflictedFile
  /\ NoMergeAttempt

\* the projects config_manager knows, and the ids start() is called with
KnownProjects == {"project"}
StartIds == {"project", "demo"}

\* start() not called yet
NoStart == [project_id |-> "None", raised |-> "None"]

InitScheduler(P) ==
  /\ status = [t \in P.tasks |-> "unclaimed"]
  /\ session = [t \in P.tasks |-> None]
  /\ dependencies = Restrict(P.dependencies, P.tasks)
  /\ priority = Restrict(P.priority, P.tasks)
  /\ merge_order = Restrict(P.merge_order, P.tasks)
  /\ max_concurrent_agents = P.max_concurrent_agents
  /\ max_agents = P.max_agents
  /\ auto_merge = P.merging
  /\ merge_queue = IF P.merging THEN "MergeQueue" ELSE "None"
  /\ status_file = [t \in P.tasks |-> "absent"]
  /\ queue = <<>>
  /\ tmux = {}
  /\ commits = {}
  /\ completed_tasks = <<>>
  /\ main = <<>>
  /\ tasks = NoTasks
  /\ pc = "manage"
  /\ events = <<>>
  /\ writes = <<>>
  /\ lastOp = "init"
  /\ spawned = [t \in P.tasks |-> 0]
  /\ died = {}
  /\ drains = <<>>
  /\ locks = [f \in Files |-> Unlocked]
  /\ can_merge = <<>>
  /\ running = TRUE
  /\ current_project_id = "project"
  /\ start_call = NoStart

InitProject(P) == InitScheduler(P) /\ ServicesInit

Init == \E P \in Projects : InitProject(P)

InitChain == \E P \in ChainProjects : InitProject(P)

InitOrder == \E P \in OrderProjects : InitProject(P)

InitCycle == \E P \in CycleProjects : InitProject(P)

\* ---------------------------------------------------------------- events
Event(type, t, st) == [type |-> type, task |-> t, status |-> st]

Write(t, old, new) == [task |-> t, old |-> old, new |-> new]

\* ProjectManager.get_tasks: the tasks sorted by (priority, task_id)
get_tasks == sorted(Filter(<<1, 2, 3>>, Tasks), [t \in Tasks |-> <<priority[t], t>>])

\* the task whose id is dep_id, or 0: next((t for t in tasks if t.id == dep_id), None)
TaskWithId(dep_id) ==
  IF \E t \in Tasks : IdOf(t) = dep_id
    THEN CHOOSE t \in Tasks : IdOf(t) = dep_id
    ELSE 0

\* --------------------------------------------------- _manage_task_queue
\* dependency filter of _manage_task_queue (orchestrator.py:204-214)
\* the filter letting a task through whatever its dependencies' status
all_deps_met_ignoring_status(st, t) ==
  \A dep_id \in dependencies[t] : TRUE

all_deps_met(st, t) ==
  \A dep_id \in dependencies[t] :
     LET dep_task == TaskWithId(dep_id)
     IN  ~(dep_task # 0 /\ st[dep_task] \notin {"completed", "merged"})

target_up_next == min(max_concurrent_agents, max_agents)

eligible_tasks(st) ==
  sorted(Filter(get_tasks, {t \in Tasks : st[t] = "unclaimed" /\ all_deps_met(st, t)}),
         [t \in Tasks |-> <<priority[t], 0 - merge_order[t]>>])

\* the surplus sorted with the highest priority first
up_next_task_list_highest_first(st) ==
  sorted(Filter(get_tasks, {t \in Tasks : st[t] = "up_next"}),
         [t \in Tasks |-> <<priority[t], merge_order[t]>>])

up_next_task_list(st) ==
  sorted(Filter(get_tasks, {t \in Tasks : st[t] = "up_next"}),
         [t \in Tasks |-> <<0 - priority[t], merge_order[t]>>])

\* the tasks promoted (to up_next) or demoted (to unclaimed), in order
ManagedTasks(st) ==
  LET up_next_tasks == Cardinality({t \in Tasks : st[t] = "up_next"})
  IN  IF up_next_tasks < target_up_next
        THEN [to |-> "up_next",
              list |-> Prefix(eligible_tasks(st),
                              min(target_up_next - up_next_tasks, Len(eligible_tasks(st))))]
      ELSE IF up_next_tasks > target_up_next
        THEN [to |-> "unclaimed",
              list |-> Prefix(up_next_task_list(st), up_next_tasks - target_up_next)]
      ELSE [to |-> "up_next", list |-> <<>>]

ManageTaskQueue ==
  /\ pc = "manage"
  /\ LET m == ManagedTasks(status)
     IN  /\ status' = [t \in Tasks |-> IF t \in Range(m.list) THEN m.to ELSE status[t]]
         /\ events' = [i \in 1..Len(m.list) |-> Event("task_status_changed", m.list[i], m.to)]
         /\ writes' = [i \in 1..Len(m.list) |-> Write(m.list[i], status[m.list[i]], m.to)]
  /\ pc' = "spawn"
  /\ lastOp' = "manage"
  /\ drains' = <<>>
  /\ UNCHANGED <<session, config, queue, world, main, tasks, spawned, died, coordination, lifecycle, services>>

\* -------------------------------------------------------- _spawn_agents
\* The loop reloads the task list before this stage (orchestrator.py:142),
\* so the stage reads the stored status.
\* up_next tasks without a conflict against the running tasks, sorted
\* (orchestrator.py:298-327)
up_next_tasks ==
  LET running_tasks == {t \in Tasks : status[t] = "in_progress"}
      free == {t \in Tasks :
                 /\ status[t] = "up_next"
                 /\ \A running_task \in running_tasks :
                      can_tasks_run_concurrently(IdOf(t), IdOf(running_task))}
  IN  sorted(Filter(get_tasks, free),
             [t \in Tasks |-> <<priority[t], 0 - merge_order[t]>>])

\* the slots counted without the agents already running
available_working_slots_not_counting_running ==
  min(max_concurrent_agents, max_agents)

available_working_slots ==
  min(max_concurrent_agents, max_agents)
    - Cardinality({t \in Tasks : status[t] = "in_progress"})

\* the tasks handed to _spawn_agent_for_task, in order (orchestrator.py:330-336)
tasks_to_spawn ==
  IF available_working_slots <= 0 THEN <<>>
  ELSE Prefix(up_next_tasks, min(Len(up_next_tasks), available_working_slots))

SpawnOutcomes == {"ok", "provision", "session"}

\* the attempt with the task recorded as in_progress before the session is
\* started, so that a failing tmux new-session leaves the record behind
_spawn_agent_for_task_recording_first(L, t, o) ==
  LET session_name == SessionName(t)
      failed == Event("agent_spawn_failed", t, L.st[t])
      R == [L EXCEPT !.sf[session_name] = "RUNNING",
                     !.st[t] = "in_progress",
                     !.se[t] = session_name,
                     !.ob[t] = "in_progress",
                     !.os[t] = session_name,
                     !.wr = Append(@, Write(t, L.st[t], "in_progress"))]
  IN  IF o = "provision"
        THEN [L EXCEPT !.ev = Append(@, failed)]
      ELSE IF o = "session" \/ session_name \in L.tm
        THEN [R EXCEPT !.ev = Append(@, failed)]
      ELSE [R EXCEPT !.tm = @ \cup {session_name},
                     !.sp[t] = @ + 1,
                     !.ev = @ \o <<Event("task_status_changed", t, "in_progress"),
                                    Event("agent_spawned", t, "in_progress")>>]

\* _spawn_agent_for_task on the local state L; o is how the attempt ends:
\* "provision" fails before the status file is written (chdir, git worktree,
\* copies), "session" fails at tmux new-session, "ok" reaches the end
_spawn_agent_for_task(L, t, o) ==
  LET session_name == SessionName(t)
      failed == Event("agent_spawn_failed", t, L.st[t])
  IN  IF o = "provision"
        THEN [L EXCEPT !.ev = Append(@, failed)]
      ELSE IF o = "session" \/ session_name \in L.tm
        THEN [L EXCEPT !.sf[session_name] = "RUNNING",
                       !.ev = Append(@, failed)]
      ELSE [L EXCEPT !.sf[session_name] = "RUNNING",
                     !.tm = @ \cup {session_name},
                     !.sp[t] = @ + 1,
                     !.st[t] = "in_progress",
                     !.se[t] = session_name,
                     !.ob[t] = "in_progress",
                     !.os[t] = session_name,
                     !.wr = Append(@, Write(t, L.st[t], "in_progress")),
                     !.ev = @ \o <<Event("task_status_changed", t, "in_progress"),
                                    Event("agent_spawned", t, "in_progress")>>]

RECURSIVE SpawnLoop(_, _, _)
SpawnLoop(L, sel, outcome) ==
  IF sel = <<>> THEN L
  ELSE SpawnLoop(_spawn_agent_for_task(L, sel[1], outcome[sel[1]]), Tail(sel), outcome)

\* the local state a scheduler operation starts from; ob/os are the status
\* and session of the Task objects of its own task list
Local(ob, os) ==
  [st |-> status, se |-> session, ob |-> ob, os |-> os, tm |-> tmux,
   sf |-> status_file, ct |-> completed_tasks, cm |-> commits,
   q |-> [i \in 1..Len(queue) |-> [task |-> queue[i], mine |-> FALSE]],
   mn |-> main, ev |-> <<>>, wr |-> <<>>, sp |-> spawned, dr |-> <<>>]

\* store the local state an operation ends with
Store(L) ==
  /\ status' = L.st
  /\ session' = L.se
  /\ tmux' = L.tm
  /\ status_file' = L.sf
  /\ completed_tasks' = L.ct
  /\ commits' = L.cm
  /\ queue' = [i \in 1..Len(L.q) |-> L.q[i].task]
  /\ main' = L.mn
  /\ events' = L.ev
  /\ writes' = L.wr
  /\ spawned' = L.sp
  /\ drains' = L.dr

\* how the spawn attempts of this tick may end
SpawnInputs ==
  {o \in [Range(tasks_to_spawn) -> SpawnOutcomes] :
     \A t \in DOMAIN o : o[t] = "ok" => spawned[t] < MaxSpawns}

_spawn_agents(outcome) ==
  SpawnLoop(Local(status, session), tasks_to_spawn, outcome)

SpawnAgents ==
  /\ pc = "spawn"
  /\ \E outcome \in SpawnInputs :
       /\ Store(_spawn_agents(outcome))
       /\ tasks' = [status |-> _spawn_agents(outcome).ob,
                    session |-> _spawn_agents(outcome).os]
  /\ pc' = "check"
  /\ lastOp' = "spawn"
  /\ died' = {}
  /\ UNCHANGED <<config, coordination, lifecycle, services>>

\* ------------------------------------------------------------- agents
\* what the agent of task t does while its session lives
Quiet(op) ==
  /\ events' = <<>>
  /\ writes' = <<>>
  /\ lastOp' = op
  /\ drains' = <<>>
  /\ UNCHANGED <<spawned, died, coordination, lifecycle, services>>

AgentCommit(t) ==
  /\ SessionName(t) \in tmux
  /\ status_file[SessionName(t)] # "COMPLETED"
  /\ \A i \in 1..Len(completed_tasks) : completed_tasks[i].task_id # t
  /\ t \notin commits
  /\ commits' = commits \cup {t}
  /\ Quiet("agent")
  /\ UNCHANGED <<status, session, config, queue, tmux, status_file,
                 completed_tasks, main, tasks, pc>>

\* bash -c 'echo COMPLETED > <status_file>' (orchestrator.py:432)
AgentSignalCompleted(t) ==
  /\ SessionName(t) \in tmux
  /\ status_file[SessionName(t)] # "COMPLETED"
  /\ status_file' = [status_file EXCEPT ![SessionName(t)] = "COMPLETED"]
  /\ Quiet("agent")
  /\ UNCHANGED <<status, session, config, queue, tmux, commits,
                 completed_tasks, main, tasks, pc>>

\* mark_task_completed(project, session, task_id): HSET in completed_tasks
AgentMarkTaskCompleted(t) ==
  /\ SessionName(t) \in tmux
  /\ \A i \in 1..Len(completed_tasks) : completed_tasks[i].task_id # t
  /\ completed_tasks' = Append(completed_tasks,
                               [task_id |-> t, session_name |-> SessionName(t)])
  /\ Quiet("agent")
  /\ UNCHANGED <<status, session, config, queue, tmux, status_file,
                 commits, main, tasks, pc>>

\* the agent process ends and its tmux session closes
AgentExit(t) ==
  /\ SessionName(t) \in tmux
  /\ tmux' = tmux \ {SessionName(t)}
  /\ Quiet("agent")
  /\ UNCHANGED <<status, session, config, queue, status_file, commits,
                 completed_tasks, main, tasks, pc>>

\* Agent steps touch only what the status check reads (tmux, the status
\* files, the branches, the Redis hash), so they commute with the other
\* stages and are all taken right before the status check.
Agent ==
  /\ pc = "check"
  /\ \E t \in Tasks :
       \/ AgentCommit(t)
       \/ AgentSignalCompleted(t)
       \/ AgentMarkTaskCompleted(t)
       \/ AgentExit(t)

\* ------------------------------------------------------------ MergeQueue
\* a queued Task object: the task, and whether the object belongs to the
\* task list of the operation now running (`mine`) or to an earlier one
Entry(t, mine) == [task |-> t, mine |-> mine]

Entries == {Entry(t, b) : t \in Tasks, b \in BOOLEAN}

\* a merge commit on main: the task, and whether merge_lock was held
Commit(t, lock) == [task |-> t, lock |-> lock]

\* dependency gate of process_queue (merge_queue.py:55-61)
deps_merged(all_tasks, t) ==
  \A dep_id \in dependencies[t] :
     LET dep_task == TaskWithId(dep_id)
     IN  ~(dep_task # 0 /\ all_tasks[dep_task] # "merged")

\* merge_task on the local state L, inside merge_lock; ok is whether the
\* merge goes through (possibly after auto-resolution) or is aborted.
\* A branch with nothing ahead of main merges as "Already up to date".
\* merge_task with the merge commit left on main although it was aborted
merge_task_committing_after_abort(L, t, ok) ==
  IF t \in L.cm
    THEN [L EXCEPT !.mn = Append(@, Commit(t, TRUE)), !.cm = @ \ {t}]
    ELSE L

merge_task(L, t, ok) ==
  IF ok /\ t \in L.cm
    THEN [L EXCEPT !.mn = Append(@, Commit(t, TRUE)), !.cm = @ \ {t}]
    ELSE L

\* what process_queue did with one queued task: "waiting" when the
\* dependency gate held it back, else whether merge_task returned True
\* ("merged") or False ("aborted"); the task's stored status before and
\* after, and whether main moved
Examined(t, result, before, after, moved) ==
  [task |-> t, result |-> result, before |-> before, after |-> after, moved |-> moved]

\* the loop of process_queue from entry i on; `shared` says that all_tasks
\* is the running operation's own list L.ob, whose objects the queue holds
RECURSIVE ProcessLoop(_, _, _, _, _, _)
ProcessLoop(L, i, all_tasks, shared, mergeOK, processed) ==
  IF i > Len(L.q) THEN [L EXCEPT !.q = SelectSeq([j \in 1..Len(L.q) |-> <<j, L.q[j]>>],
                                              LAMBDA e : e[1] \notin processed)]
  ELSE
    LET task == L.q[i]
        all  == IF shared THEN L.ob ELSE all_tasks
        gate == deps_merged(all, task.task)
        ok   == gate /\ task.task \in mergeOK
        M    == IF gate THEN merge_task(L, task.task, task.task \in mergeOK) ELSE L
        N    == IF ok /\ task.mine THEN [M EXCEPT !.ob[task.task] = "merged"] ELSE M
        X    == [N EXCEPT !.dr[Len(N.dr)] =
                   Append(@, Examined(task.task,
                                      IF ok THEN "merged" ELSE IF gate THEN "aborted" ELSE "waiting",
                                      L.st[task.task], N.st[task.task], M.mn # L.mn))]
    IN  ProcessLoop(X, i + 1, all_tasks, shared, mergeOK,
                    IF ok THEN processed \cup {i} ELSE processed)

process_queue(L, all_tasks, shared, mergeOK) ==
  LET R == ProcessLoop([L EXCEPT !.dr = Append(@, <<>>)], 1, all_tasks, shared, mergeOK, {})
  IN  [R EXCEPT !.q = [j \in 1..Len(R.q) |-> R.q[j][2]]]

\* add_to_queue leaving the queue in the order of arrival
add_to_queue_unsorted(L, t, all_tasks, shared, mergeOK) ==
  process_queue([L EXCEPT !.q = Append(L.q, Entry(t, TRUE))], all_tasks, shared, mergeOK)

add_to_queue(L, t, all_tasks, shared, mergeOK) ==
  LET key == [e \in Entries |-> <<merge_order[e.task], 0 - priority[e.task]>>]
      Q == [L EXCEPT !.q = sorted(Append(L.q, Entry(t, TRUE)), key)]
  IN  process_queue(Q, all_tasks, shared, mergeOK)

\* ------------------------------------------------------ A2AMCPMergeQueue
\* negotiate_file_access: True only when the holder's reply contains one of
\* the affirmative phrases
negotiate_file_access(coordination_enabled, reply) ==
  IF ~coordination_enabled THEN FALSE
  ELSE reply \cap AffirmativePhrases # {}

\* check_file_locks: False when a changed file is locked by another session
\* that does not give way; a file whose lock check fails is passed over
check_file_locks(t, store) ==
  \A f \in get_modified_files(t) :
     \/ store[f].fails
     \/ store[f].locked_by = None
     \/ store[f].locked_by = SessionName(t)
     \/ negotiate_file_access(TRUE, store[f].reply)

\* can_merge_task: the dependency gate, then the lock check when
\* coordination is on and the task object has a project_id
can_merge_task(t, all_tasks, coordination_enabled, store) ==
  IF ~deps_merged(all_tasks, t) THEN FALSE
  ELSE IF coordination_enabled /\ hasattr_task("project_id")
    THEN check_file_locks(t, store)
  ELSE TRUE

\* process_queue asks can_merge_task about a queued task and goes on to
\* merge_task when the answer is True
A2AMCPCanMergeTask ==
  /\ \E i \in 1..Len(queue), coordination_enabled \in BOOLEAN :
       can_merge' = <<[task |-> queue[i],
                       coordination_enabled |-> coordination_enabled,
                       result |-> can_merge_task(queue[i], status, coordination_enabled, locks)]>>
  /\ UNCHANGED <<status, session, config, queue, world, main, tasks, pc, events,
                 writes, lastOp, spawned, died, drains, locks, lifecycle, services>>

\* --------------------------------------------------- _check_agent_status
\* mark t completed and, with auto-merge, queue it (orchestrator.py:709-729,
\* 757-777, 809-828)
MarkCompleted(L, t, mergeOK) ==
  LET C == [L EXCEPT !.st[t] = "completed",
                     !.wr = Append(@, Write(t, L.st[t], "completed")),
                     !.ev = Append(@, Event("task_completed", t, "completed"))]
  IN  IF auto_merge /\ merge_queue # "None"
        THEN add_to_queue(C, t, C.st, FALSE, mergeOK)
        ELSE C

KillSession(L, session_name) == [L EXCEPT !.tm = @ \ {session_name}]

\* the Redis pass over the completion notices read by hgetall
RECURSIVE RedisLoop(_, _, _)
RedisLoop(L, notices, mergeOK) ==
  IF notices = <<>> THEN L
  ELSE
    LET n == notices[1]
        found == Filter(get_tasks, {t \in Tasks : t = n.task_id /\ L.os[t] = n.session_name})
    IN  IF found = <<>> THEN RedisLoop(L, Tail(notices), mergeOK)
        ELSE
          LET K == [KillSession(L, n.session_name) EXCEPT
                      !.sf[n.session_name] = "absent",
                      !.ct = SelectSeq(@, LAMBDA e : e.task_id # n.task_id)]
          IN  RedisLoop(MarkCompleted(K, found[1], mergeOK), Tail(notices), mergeOK)

\* the second pass with a reset that leaves the dead session recorded
CheckTask_keeping_session(L, t, pane, mergeOK) ==
  IF ~(L.ob[t] \in {"up_next", "in_progress"} /\ L.os[t] # None) THEN L
  ELSE
    LET s == L.os[t] IN
    IF L.sf[s] = "COMPLETED"
      THEN MarkCompleted([KillSession(L, s) EXCEPT !.sf[s] = "absent"], t, mergeOK)
    ELSE
      LET finished == L.sf[s] = "absent" /\ s \in L.tm /\ t \in pane
          K == IF finished THEN KillSession(L, s) ELSE L
      IN  IF s \in K.tm THEN K
          ELSE IF t \in K.cm THEN MarkCompleted(K, t, mergeOK)
          ELSE [K EXCEPT !.st[t] = "up_next",
                         !.wr = Append(@, Write(t, K.st[t], "up_next")),
                         !.ev = Append(@, Event("task_status_changed", t, "up_next"))]

\* one task of the second pass (orchestrator.py:737-846); pane is the set of
\* tasks whose tmux pane shows one of the completion phrases
CheckTask(L, t, pane, mergeOK) ==
  IF ~(L.ob[t] \in {"up_next", "in_progress"} /\ L.os[t] # None) THEN L
  ELSE
    LET s == L.os[t] IN
    IF L.sf[s] = "COMPLETED"
      THEN MarkCompleted([KillSession(L, s) EXCEPT !.sf[s] = "absent"], t, mergeOK)
    ELSE
      LET finished == L.sf[s] = "absent" /\ s \in L.tm /\ t \in pane
          K == IF finished THEN KillSession(L, s) ELSE L
      IN  IF s \in K.tm THEN K
          ELSE IF t \in K.cm THEN MarkCompleted(K, t, mergeOK)
          ELSE [K EXCEPT !.st[t] = "up_next",
                         !.se[t] = None,
                         !.wr = Append(@, Write(t, K.st[t], "up_next")),
                         !.ev = Append(@, Event("task_status_changed", t, "up_next"))]

RECURSIVE CheckLoop(_, _, _, _)
CheckLoop(L, list, pane, mergeOK) ==
  IF list = <<>> THEN L
  ELSE CheckLoop(CheckTask(L, list[1], pane, mergeOK), Tail(list), pane, mergeOK)

_check_agent_status(redis_ok, pane, mergeOK) ==
  LET L0 == Local(status, session)
      L1 == IF redis_ok THEN RedisLoop(L0, completed_tasks, mergeOK) ELSE L0
  IN  CheckLoop(L1, get_tasks, pane, mergeOK)

\* the in_progress tasks whose session is gone with no commit ahead of
\* main, no completion notice and no COMPLETED status file
DiedWithoutWork ==
  {t \in Tasks :
     /\ status[t] = "in_progress"
     /\ session[t] # None
     /\ session[t] \notin tmux
     /\ t \notin commits
     /\ status_file[session[t]] # "COMPLETED"
     /\ \A i \in 1..Len(completed_tasks) : completed_tasks[i].task_id # t}

\* the inputs that can make a difference to a status check
RedisInputs == IF completed_tasks = <<>> THEN {TRUE} ELSE BOOLEAN

PaneInputs ==
  SUBSET {t \in Tasks : /\ session[t] # None
                        /\ session[t] \in tmux
                        /\ status_file[session[t]] = "absent"}

MergeInputs(candidates) ==
  IF auto_merge /\ merge_queue # "None"
    THEN SUBSET (Range(queue) \cup candidates)
    ELSE {{}}

CheckInputs == MergeInputs({t \in Tasks : session[t] # None /\ status[t] # "merged"})

CheckAgentStatus ==
  /\ pc = "check"
  /\ \E redis_ok \in RedisInputs, pane \in PaneInputs, mergeOK \in CheckInputs :
       Store(_check_agent_status(redis_ok, pane, mergeOK))
  /\ pc' = "merge"
  /\ lastOp' = "check"
  /\ died' = DiedWithoutWork
  /\ UNCHANGED <<config, tasks, coordination, lifecycle, services>>

\* ------------------------------------- _check_and_merge_completed_tasks
RECURSIVE MergeLoop(_, _, _, _)
MergeLoop(L, list, queue_ids, mergeOK) ==
  IF list = <<>> THEN L
  ELSE IF list[1] \in queue_ids THEN MergeLoop(L, Tail(list), queue_ids, mergeOK)
  ELSE LET A == add_to_queue(L, list[1], L.ob, TRUE, mergeOK)
           B == [A EXCEPT !.ev = Append(@, Event("task_queued_for_merge", list[1], A.ob[list[1]]))]
       IN  MergeLoop(B, Tail(list), queue_ids, mergeOK)

_check_and_merge_completed_tasks(mergeOK) ==
  LET L0 == Local(tasks.status, tasks.session)
  IN  IF ~auto_merge \/ merge_queue = "None" THEN L0
      ELSE MergeLoop(L0,
                     Filter(get_tasks, {t \in Tasks : tasks.status[t] = "completed"}),
                     Range(queue), mergeOK)

CheckAndMergeCompletedTasks ==
  /\ pc = "merge"
  /\ \E mergeOK \in MergeInputs({t \in Tasks : tasks.status[t] = "completed"}) :
       Store(_check_and_merge_completed_tasks(mergeOK))
  /\ tasks' = NoTasks
  /\ pc' = "manage"
  /\ lastOp' = "merge"
  /\ UNCHANGED <<config, died, coordination, lifecycle, services>>

\* ----------------------------------------------------------------- API
\* POST /api/projects/{project_id}/tasks/{task_id}/merge (force = False):
\* merges without taking merge_lock
ApiMergeTask(t) ==
  /\ pc = "manage"
  /\ status[t] = "completed"
  /\ \E ok \in BOOLEAN :
       IF ok
         THEN /\ main' = IF t \in commits THEN Append(main, Commit(t, FALSE)) ELSE main
              /\ commits' = commits \ {t}
              /\ status' = [status EXCEPT ![t] = "merged"]
              /\ writes' = <<Write(t, status[t], "merged")>>
              /\ events' = <<Event("task_merged", t, "merged")>>
         ELSE /\ UNCHANGED <<main, commits, status>>
              /\ writes' = <<>>
              /\ events' = <<>>
  /\ lastOp' = "api_merge"
  /\ drains' = <<>>
  /\ UNCHANGED <<session, config, queue, tmux, status_file, completed_tasks, tasks, pc,
                 spawned, died, coordination, lifecycle, services>>

Api == \E t \in Tasks : ApiMergeTask(t)

\* PUT /api/projects/{project_id}/tasks/{task_id} with {"status": "up_next"}
\* on a running task: ProjectManager.update_task stores the status and
\* leaves the session field and the tmux session alone
ApiUpdateTask ==
  /\ pc = "manage"
  /\ \E t \in Tasks :
       /\ status[t] = "in_progress"
       /\ status' = [status EXCEPT ![t] = "up_next"]
       /\ writes' = <<Write(t, status[t], "up_next")>>
       /\ events' = <<Event("task_updated", t, "up_next")>>
  /\ lastOp' = "api_update"
  /\ drains' = <<>>
  /\ UNCHANGED <<session, config, queue, world, main, tasks, pc, spawned, died, coordination, lifecycle, services>>

\* POST /api/orchestrator/stop: OrchestratorManager.stop.  The loop task is
\* cancelled where it is suspended: in the wait between two ticks, or inside
\* a tick in the broadcast that ends queue management or the spawn stage.
\* The status files are removed; the tmux sessions are left alone.
Stop ==
  /\ running
  /\ \/ pc \in {"manage", "no loop"}
     \/ pc \in {"spawn", "check"} /\ lastOp \in {"manage", "spawn"} /\ events # <<>>
  /\ running' = FALSE
  /\ current_project_id' = "None"
  /\ status_file' = [s \in DOMAIN status_file |-> "absent"]
  /\ events' = <<Event("orchestrator_stopped", None, "stopped")>>
  /\ writes' = <<>>
  /\ lastOp' = "stop"
  /\ drains' = <<>>
  /\ UNCHANGED <<status, session, config, queue, tmux, commits, completed_tasks, main,
                 tasks, pc, spawned, died, coordination, start_call, services>>

\* start() storing the project id before it looks the project up
start_assigning_first(project_id) ==
  IF running
    THEN [running |-> running, current_project_id |-> project_id,
          raised |-> "ValueError"]
  ELSE IF project_id \notin KnownProjects
    THEN [running |-> running, current_project_id |-> project_id,
          raised |-> "ValueError"]
  ELSE [running |-> TRUE, current_project_id |-> project_id, raised |-> "TypeError"]

\* OrchestratorManager.start and A2AMCPOrchestrator.start: what the call
\* leaves in running and current_project_id, and what it raises.  A call
\* that passes both tests stores the project id and the flag and then
\* raises TypeError from MergeQueue(project.path, update_task_status),
\* before merge_queue is assigned and before the loop task is created.
start(project_id) ==
  IF running
    THEN [running |-> running, current_project_id |-> current_project_id,
          raised |-> "ValueError"]
  ELSE IF project_id \notin KnownProjects
    THEN [running |-> running, current_project_id |-> current_project_id,
          raised |-> "ValueError"]
  ELSE [running |-> TRUE, current_project_id |-> project_id, raised |-> "TypeError"]

\* POST /api/orchestrator/start
Start(project_id) ==
  /\ \/ pc \in {"manage", "no loop"}
     \/ pc \in {"spawn", "check"} /\ lastOp \in {"manage", "spawn"} /\ events # <<>>
  /\ running' = start(project_id).running
  /\ current_project_id' = start(project_id).current_project_id
  /\ start_call' = [project_id |-> project_id, raised |-> start(project_id).raised]
  /\ pc' = IF start(project_id).raised = "TypeError" THEN "no loop" ELSE pc
  /\ events' = <<>>
  /\ writes' = <<>>
  /\ lastOp' = "start"
  /\ drains' = <<>>
  /\ UNCHANGED <<status, session, config, queue, world, main, tasks, spawned, died,
                 coordination, services>>

\* an agent finishing while the tick is between queue management and the
\* spawn stage
AgentBeforeSpawn ==
  /\ pc = "spawn"
  /\ \E t \in Tasks : AgentSignalCompleted(t)

Next ==
  \/ ManageTaskQueue
  \/ SpawnAgents
  \/ CheckAgentStatus
  \/ CheckAndMergeCompletedTasks
  \/ Agent
  \/ Api

Spec == Init /\ [][Next]_vars

\* the agents of the chain signal completion through the status file only:
\* none of them calls mark_task_completed
AgentChain ==
  /\ pc = "check"
  /\ \E t \in Tasks :
       \/ AgentCommit(t)
       \/ AgentSignalCompleted(t)
       \/ AgentExit(t)

NextChain ==
  \/ ManageTaskQueue
  \/ SpawnAgents
  \/ CheckAgentStatus
  \/ CheckAndMergeCompletedTasks
  \/ AgentChain
  \/ Api

SpecChain == InitChain /\ [][NextChain]_vars

SpecOrder == InitOrder /\ [][Next]_vars

SpecCycle == InitCycle /\ [][Next]_vars

\* the loop, with the dashboard moving running tasks back to up_next
InitUpdate == InitProject(Project({1, 3}, NoDeps, Flat(0), 1, DefaultMaxAgents, FALSE))

NextUpdate ==
  \/ Next
  \/ ApiUpdateTask
  \/ AgentBeforeSpawn

SpecUpdate == InitUpdate /\ [][NextUpdate]_vars

\* three tasks, free or in a chain, with rising or falling priority, or
\* with equal priority and rising merge_order, one or two agents at most,
\* merging off
Falling == [t \in AllTasks |-> 4 - t]

QueueProjects ==
  { Ordered(Project({1, 2, 3}, deps, o.priority, cap, DefaultMaxAgents, FALSE),
            o.merge_order) :
      deps \in {NoDeps, Chain}, cap \in {1, 2},
      o \in {[priority |-> Flat(1), merge_order |-> Rising],
              [priority |-> Rising, merge_order |-> Flat(0)],
              [priority |-> Falling, merge_order |-> Flat(0)]} }

InitQueue == \E P \in QueueProjects : InitProject(P)

\* the loop, agents that signal through the status file, and the dashboard
\* moving running tasks back to up_next
NextQueue ==
  \/ ManageTaskQueue
  \/ SpawnAgents
  \/ CheckAgentStatus
  \/ CheckAndMergeCompletedTasks
  \/ AgentChain
  \/ ApiUpdateTask

SpecQueue == InitQueue /\ [][NextQueue]_vars

\* one tick of _orchestrator_loop is the four stages in turn, run while
\* self.running holds
Tick ==
  /\ running
  /\ \/ ManageTaskQueue
     \/ SpawnAgents
     \/ CheckAgentStatus
     \/ CheckAndMergeCompletedTasks

\* the loop with stop() called at any time
NextStop ==
  \/ Tick
  \/ Agent
  \/ Api
  \/ Stop

SpecStop == InitUpdate /\ [][NextStop]_vars

\* the loop with start() and stop() called at any time
NextStart ==
  \/ Tick
  \/ Agent
  \/ Stop
  \/ \E project_id \in StartIds : Start(project_id)

SpecStart == InitUpdate /\ [][NextStart]_vars

\* a task and the task that depends on it, both completed or the first one
\* merged already, both in the queue of an A2AMCPMergeQueue, with any locks
\* in the coordination store
InitLocks ==
  /\ ServicesInit
  /\ status \in {[t \in {1, 2} |-> IF t = 1 THEN s ELSE "completed"] : s \in {"completed", "merged"}}
  /\ session = [t \in {1, 2} |-> None]
  /\ dependencies = Restrict(Chain, {1, 2})
  /\ priority = Restrict(Flat(0), {1, 2})
  /\ merge_order = Restrict(Flat(0), {1, 2})
  /\ max_concurrent_agents = DefaultMaxConcurrentAgents
  /\ max_agents = DefaultMaxAgents
  /\ auto_merge = TRUE
  /\ merge_queue = "A2AMCPMergeQueue"
  /\ status_file = [t \in {1, 2} |-> "absent"]
  /\ queue = IF status[1] = "completed" THEN <<1, 2>> ELSE <<2>>
  /\ tmux = {}
  /\ commits = {t \in {1, 2} : status[t] = "completed"}
  /\ completed_tasks = <<>>
  /\ main = IF status[1] = "merged" THEN <<Commit(1, TRUE)>> ELSE <<>>
  /\ tasks = NoTasks
  /\ pc = "merge"
  /\ events = <<>>
  /\ writes = <<>>
  /\ lastOp = "init"
  /\ spawned = [t \in {1, 2} |-> 1]
  /\ died = {}
  /\ drains = <<>>
  /\ locks \in [Files -> LockStates]
  /\ can_merge = <<>>
  /\ running = TRUE
  /\ current_project_id = "project"
  /\ start_call = NoStart

\* can_merge_task applied to the queued tasks under every lock state
NextLocks == A2AMCPCanMergeTask

SpecLocks == InitLocks /\ [][NextLocks]_vars

\* --------------------------------------------------------- ProjectManager
\* int(text) over the texts explored: the value, or ValueError for the rest
IntValue ==
  ("-1" :> -1) @@ ("0" :> 0) @@ ("1" :> 1) @@ ("2" :> 2) @@ ("3" :> 3) @@
  ("4" :> 4) @@ ("5" :> 5) @@ ("6" :> 6)

is_int(text) == text \in DOMAIN IntValue

int(text) == IntValue[text]

\* str(n), the text an f-string writes for an integer
str(n) == CHOOSE text \in DOMAIN IntValue : IntValue[text] = n

TaskStatus == {"unclaimed", "up_next", "in_progress", "completed", "merged"}

\* the titles explored
Titles == {"Base HTML", "base html", "Api/Auth"}

\* title.lower().replace(" ", "-")
lower_dashed(title) ==
  CASE title = "Base HTML" -> "base-html"
    [] title = "base html" -> "base-html"
    [] title = "Api/Auth"  -> "api/auth"

\* _sanitize_task_id: "/" and "\" become "-", "&" becomes "and"
sanitize_task_id(text) ==
  CASE text = "api/auth"  -> "api-auth"
    [] text = "feature/x" -> "feature-x"
    [] OTHER -> text

\* f"{new_task_id}-{self.project.id}" and f"task-{new_task_id}"
simple_id(n) ==
  CASE n = 1 -> "1-project" [] n = 2 -> "2-project" [] n = 3 -> "3-project"
    [] n = 4 -> "4-project" [] n = 5 -> "5-project" [] n = 6 -> "6-project"

branch_name(n) ==
  CASE n = 1 -> "task-1" [] n = 2 -> "task-2" [] n = 3 -> "task-3"
    [] n = 4 -> "task-4" [] n = 5 -> "task-5" [] n = 6 -> "task-6"

\* [d.strip() for d in text.strip("[]").split(",") if d.strip()]
split_list(text) ==
  CASE text = "[ ]"                   -> <<>>
    [] text = "[base-html]"           -> <<"base-html">>
    [] text = "[base-html,api-auth]"  -> <<"base-html", "api-auth">>
    [] text = "[base-html, api-auth]" -> <<"base-html", "api-auth">>

\* f"[{', '.join(items)}]"
join_list(items) ==
  CASE items = <<"base-html">>             -> "[base-html]"
    [] items = <<"base-html", "api-auth">> -> "[base-html, api-auth]"

parse_list(text) ==
  IF text = Absent \/ text = "" \/ text = "[]" THEN <<>> ELSE split_list(text)

parse_int_or_zero(text) ==
  IF text = Absent THEN 0 ELSE IF is_int(text) THEN int(text) ELSE 0

\* a section of tasks.md with the text of each of its lines
Section(title) ==
  [title |-> title, task_id |-> Absent, status |-> Absent, branch |-> Absent,
   session |-> Absent, description |-> Absent, prompt |-> Absent,
   dependencies |-> Absent, priority |-> Absent, merge_order |-> Absent,
   exclusive_files |-> Absent, shared_files |-> Absent,
   initialization_deps |-> Absent]

\* get_tasks' loop over the lines of one section
parse_section(e) ==
  [id          |-> sanitize_task_id(lower_dashed(e.title)),
   task_id     |-> IF e.task_id # Absent /\ is_int(e.task_id) THEN int(e.task_id)
                   ELSE NoneInt,
   title       |-> e.title,
   status      |-> IF e.status \in TaskStatus THEN e.status ELSE "unclaimed",
   branch      |-> IF e.branch = Absent \/ e.branch = "null" THEN Null
                   ELSE sanitize_task_id(e.branch),
   session     |-> IF e.session = Absent \/ e.session = "null" THEN Null
                   ELSE e.session,
   description |-> IF e.description = Absent THEN Null ELSE e.description,
   prompt      |-> IF e.prompt = Absent THEN Null ELSE e.prompt,
   dependencies |-> parse_list(e.dependencies),
   priority    |-> parse_int_or_zero(e.priority),
   merge_order |-> parse_int_or_zero(e.merge_order),
   exclusive_files |-> parse_list(e.exclusive_files),
   shared_files |-> parse_list(e.shared_files),
   initialization_deps |-> parse_list(e.initialization_deps)]

RECURSIVE max_of(_, _)
max_of(ids, m) ==
  IF ids = <<>> THEN m
  ELSE max_of(Tail(ids), IF Head(ids) > m THEN Head(ids) ELSE m)

\* "Assign task IDs to tasks that don't have them", in file order
RECURSIVE assign_task_ids(_, _)
assign_task_ids(ts, max_task_id) ==
  IF ts = <<>> THEN <<>>
  ELSE IF Head(ts).task_id = NoneInt
       THEN <<[Head(ts) EXCEPT !.task_id = max_task_id + 1]>>
            \o assign_task_ids(Tail(ts), max_task_id + 1)
       ELSE <<Head(ts)>> \o assign_task_ids(Tail(ts), max_task_id)

RECURSIVE select_with_branch(_)
select_with_branch(ts) ==
  IF ts = <<>> THEN <<>>
  ELSE IF Head(ts).branch # Null /\ Head(ts).branch # ""
       THEN <<Head(ts)>> \o select_with_branch(Tail(ts))
       ELSE select_with_branch(Tail(ts))

\* key=lambda t: (t.priority if t.priority is not None else 10, t.task_id or 0)
sort_key(ts) == [t \in Range(ts) |-> <<t.priority, t.task_id>>]

\* ProjectManager.get_tasks applied to the sections of tasks.md
parse_tasks(file) ==
  LET parsed == [k \in 1..Len(file) |-> parse_section(file[k])]
      max_task_id == max_of([k \in 1..Len(parsed) |->
                               IF parsed[k].task_id = NoneInt THEN 0
                               ELSE parsed[k].task_id], 0)
      result_tasks == select_with_branch(assign_task_ids(parsed, max_task_id))
  IN  sorted(result_tasks, sort_key(result_tasks))

\* the lines save_tasks writes for one task
format_task(task) ==
  [title       |-> task.title,
   task_id     |-> str(task.task_id),
   status      |-> task.status,
   branch      |-> task.branch,
   session     |-> IF task.session = Null \/ task.session = "" THEN "null"
                   ELSE task.session,
   description |-> IF task.description = Null \/ task.description = "" THEN Absent
                   ELSE task.description,
   prompt      |-> IF task.prompt = Null \/ task.prompt = "" THEN Absent
                   ELSE task.prompt,
   dependencies |-> IF task.dependencies = <<>> THEN Absent
                    ELSE join_list(task.dependencies),
   priority    |-> IF task.priority > 0 THEN str(task.priority) ELSE Absent,
   merge_order |-> IF task.merge_order > 0 THEN str(task.merge_order) ELSE Absent,
   exclusive_files |-> IF task.exclusive_files = <<>> THEN Absent
                       ELSE join_list(task.exclusive_files),
   shared_files |-> IF task.shared_files = <<>> THEN Absent
                    ELSE join_list(task.shared_files),
   initialization_deps |-> IF task.initialization_deps = <<>> THEN Absent
                           ELSE join_list(task.initialization_deps)]

\* ProjectManager.save_tasks: the sections written for a task list
save_tasks(ts) ==
  LET sorted_tasks == sorted(ts, sort_key(ts))
  IN  [k \in 1..Len(sorted_tasks) |-> format_task(sorted_tasks[k])]

Call(op, id, error) == [op |-> op, id |-> id, error |-> error]

\* pm.get_tasks()
GetTasks ==
  /\ loaded' = parse_tasks(tasks_file)
  /\ last_call' = Call("get_tasks", Null, Null)
  /\ UNCHANGED <<tasks_file, assigned, websocket, mcp, other_services, scheduler>>

\* pm.save_tasks(tasks) with the list the last call returned
SaveTasks ==
  /\ last_call.op = "get_tasks"
  /\ tasks_file' = save_tasks(loaded)
  /\ last_call' = Call("save_tasks", Null, Null)
  /\ UNCHANGED <<loaded, assigned, websocket, mcp, other_services, scheduler>>

MaxAdds == 2

\* the ids add_task has returned so far
ReturnedIds == {assigned[k].id : k \in 1..Len(assigned)}

\* the ids a caller passes: those get_tasks lists, those add_task returned,
\* and one that names nothing
CallerIds ==
  {sanitize_task_id(lower_dashed(title)) : title \in Titles}
  \cup ReturnedIds \cup {"no-such-task"}

\* the `updates` dicts explored
Updates == {[key |-> "status", value |-> "up_next"], [key |-> "title", value |-> "Api/Auth"]}

\* Task(id=simple_id, task_id=new_task_id, title=..., branch=..., status=UNCLAIMED,
\* dependencies=dependencies or [], priority=priority), the rest at its default
new_task(new_task_id, title, priority_) ==
  [id |-> simple_id(new_task_id), task_id |-> new_task_id, title |-> title,
   status |-> "unclaimed", branch |-> branch_name(new_task_id), session |-> Null,
   description |-> Null, prompt |-> Null, dependencies |-> <<>>,
   priority |-> priority_, merge_order |-> 0, exclusive_files |-> <<>>,
   shared_files |-> <<>>, initialization_deps |-> <<>>]

\* pm.add_task(title, priority=priority)
AddTask(title, priority_) ==
  /\ Len(assigned) < MaxAdds
  /\ LET ts == parse_tasks(tasks_file)
         max_task_id == max_of([k \in 1..Len(ts) |-> ts[k].task_id], 0)
         task == new_task(max_task_id + 1, title, priority_)
     IN  /\ loaded' = Append(ts, task)
         /\ tasks_file' = save_tasks(Append(ts, task))
         /\ assigned' = Append(assigned, task)
         /\ last_call' = Call("add_task", task.id, Null)
  /\ UNCHANGED <<websocket, mcp, other_services, scheduler>>

\* the index of the first task with this id, 0 if there is none
index_of(ts, task_id) ==
  IF \E k \in 1..Len(ts) : ts[k].id = task_id
  THEN CHOOSE k \in 1..Len(ts) : ts[k].id = task_id /\ \A j \in 1..(k - 1) : ts[j].id # task_id
  ELSE 0

\* pm.update_task(task_id, updates): ValueError when no task has the id
UpdateTask(task_id, updates) ==
  /\ LET ts == parse_tasks(tasks_file)
         i == index_of(ts, task_id)
     IN  IF i = 0
         THEN /\ last_call' = Call("update_task", task_id, "ValueError")
              /\ loaded' = ts
              /\ UNCHANGED tasks_file
         ELSE LET updated == [ts EXCEPT ![i][updates.key] = updates.value]
              IN  /\ loaded' = updated
                  /\ tasks_file' = save_tasks(updated)
                  /\ last_call' = Call("update_task", task_id, Null)
  /\ UNCHANGED <<assigned, websocket, mcp, other_services, scheduler>>

RECURSIVE without_id(_, _)
without_id(ts, task_id) ==
  IF ts = <<>> THEN <<>>
  ELSE IF Head(ts).id # task_id THEN <<Head(ts)>> \o without_id(Tail(ts), task_id)
  ELSE without_id(Tail(ts), task_id)

\* pm.delete_task(task_id)
DeleteTask(task_id) ==
  /\ LET ts == without_id(parse_tasks(tasks_file), task_id)
     IN  /\ loaded' = ts
         /\ tasks_file' = save_tasks(ts)
  /\ last_call' = Call("delete_task", task_id, Null)
  /\ UNCHANGED <<assigned, websocket, mcp, other_services, scheduler>>

\* a project whose tasks are created, listed, updated and deleted through
\* ProjectManager, starting without tasks.md
NextStore ==
  \/ \E title \in Titles : \E priority_ \in {0, 1} : AddTask(title, priority_)
  \/ \E task_id \in CallerIds : \E updates \in Updates : UpdateTask(task_id, updates)
  \/ \E task_id \in CallerIds : DeleteTask(task_id)
  \/ GetTasks

SpecStore == InitUpdate /\ [][NextStore]_vars

\* the orchestrator before its first tick, in the specifications that
\* explore the services around it
Idle == InitScheduler(Project({1, 3}, NoDeps, Flat(0), 1, DefaultMaxAgents, FALSE))

\* a section as add_task and save_tasks write it
Written ==
  [Section("Base HTML") EXCEPT !.task_id = "1", !.status = "unclaimed",
                               !.branch = "task-1", !.session = "null"]

ListTexts == {"[]", "[ ]", "[base-html]", "[base-html,api-auth]", "[base-html, api-auth]"}

\* the texts explored for each line of a section, as a file written by hand
\* or by an earlier version may hold them
LineTexts ==
  [title       |-> Titles,
   task_id     |-> {Absent, "2", "x"},
   status      |-> {Absent, "in_progress", "merged", "done"},
   branch      |-> {Absent, "null", "", "feature/x"},
   session     |-> {Absent, "", "task-1-agent"},
   description |-> {"", "Create the page"},
   prompt      |-> {"", "Use plain HTML"},
   dependencies |-> ListTexts,
   priority    |-> {"-1", "0", "1", "x"},
   merge_order |-> {"-1", "0", "1", "x"},
   exclusive_files |-> ListTexts,
   shared_files |-> ListTexts,
   initialization_deps |-> ListTexts]

Sections ==
  {Written} \cup
  UNION {{[Written EXCEPT ![f] = text] : text \in LineTexts[f]} : f \in DOMAIN LineTexts}

\* tasks.md with one or two sections
TasksFiles == {<<a>> : a \in Sections} \cup {<<a, b>> : a \in Sections, b \in Sections}

InitFile ==
  /\ Idle
  /\ WebSocketManager
  /\ AgentCommunicationServer
  /\ FileCoordination
  /\ EmptyRedis
  /\ NoConflictedFile
  /\ NoMergeAttempt
  /\ tasks_file \in TasksFiles
  /\ loaded = <<>>
  /\ last_call = NoCall
  /\ assigned = <<>>

\* tasks.md read, written back and read again
NextFile == GetTasks \/ SaveTasks

SpecFile == InitFile /\ [][NextFile]_vars

\* ---------------------------------------------- AgentCommunicationServer
\* a tool call with its arguments; `at` is the datetime.now() the handler
\* read last, `step` the Redis command it awaits, `todo_data` what its hget
\* returned
ToolCall(name, session_name, task_id, todo_id, task) ==
  [name |-> name, session_name |-> session_name, task_id |-> task_id,
   todo_id |-> todo_id, task |-> task, at |-> clock, step |-> 1,
   todo_data |-> NoTodo]

\* f"todo_{int(datetime.now().timestamp() * 1000)}": one id per millisecond
TodoId(at) == at

Response(call, status_, data) ==
  [name |-> call.name, session_name |-> call.session_name, status |-> status_,
   data |-> data]

\* hset of a todos hash: the field is replaced when it exists
hset_todo(hash, todo) == {t \in hash : t.id # todo.id} \cup {todo}

\* a client sends a tool call; the handler runs up to its first Redis command
StartCall(c, call) ==
  /\ in_flight[c] = NoToolCall
  /\ mcp_history.calls < MaxCalls
  /\ in_flight' = [in_flight EXCEPT ![c] = call]
  /\ mcp_history' =
       [calls |-> mcp_history.calls + 1,
        ticks |-> mcp_history.ticks,
        added |-> IF call.name = "add_todo"
                  THEN [mcp_history.added EXCEPT ![call.session_name] = Append(@, call.task)]
                  ELSE mcp_history.added,
        other_todo_calls |->
                  IF call.name \in {"update_todo", "unregister_agent"}
                  THEN [mcp_history.other_todo_calls EXCEPT ![call.session_name] = TRUE]
                  ELSE mcp_history.other_todo_calls,
        unregistered |->
                  IF call.name = "list_active_agents" THEN mcp_history.unregistered
                  ELSE [mcp_history.unregistered EXCEPT ![call.session_name] = FALSE]]
  /\ UNCHANGED <<redis, clock, response, websocket, tasks_md, other_services, scheduler>>

RegisterAgent(c, session_name, task_id) ==
  StartCall(c, ToolCall("register_agent", session_name, task_id, 0, Null))

UnregisterAgent(c, session_name) ==
  StartCall(c, ToolCall("unregister_agent", session_name, Null, 0, Null))

Heartbeat(c, session_name) ==
  StartCall(c, ToolCall("heartbeat", session_name, Null, 0, Null))

ListActiveAgents(c) ==
  StartCall(c, ToolCall("list_active_agents", Null, Null, 0, Null))

AddTodo(c, session_name, task) ==
  StartCall(c, ToolCall("add_todo", session_name, Null, TodoId(clock), task))

UpdateTodo(c, session_name, todo_id) ==
  StartCall(c, ToolCall("update_todo", session_name, Null, todo_id, Null))

GetMyTodos(c, session_name) ==
  StartCall(c, ToolCall("get_my_todos", session_name, Null, 0, Null))

\* the handler awaits its next Redis command
Await(c) ==
  /\ in_flight' = [in_flight EXCEPT ![c] = [@ EXCEPT !.step = @ + 1, !.at = clock]]
  /\ UNCHANGED <<response, mcp_history>>

\* the handler returns its response
Return(c, status_, data) ==
  /\ in_flight' = [in_flight EXCEPT ![c] = NoToolCall]
  /\ response' = Response(in_flight[c], status_, data)

\* unregister_agent has returned: the session counts as unregistered unless
\* a register_agent call for it is in flight
ReturnUnregistered(c, session_name) ==
  /\ Return(c, "success", Null)
  /\ mcp_history' =
       [mcp_history EXCEPT !.unregistered[session_name] =
          \A d \in Clients \ {c} :
             ~ (/\ in_flight[d].name = "register_agent"
                /\ in_flight[d].session_name = session_name)]

\* Redis executes the command the handler of client c awaits, and the handler
\* runs on to its next command or to its return
RedisCommand(c) ==
  /\ in_flight[c] # NoToolCall
  /\ LET call == in_flight[c]
         s == call.session_name
     IN  CASE call.name = "register_agent" /\ call.step = 1 ->
                /\ redis' = [redis EXCEPT !.agents[s] =
                               [task_id |-> call.task_id, status |-> "active",
                                started_at |-> call.at]]
                /\ Await(c)
           [] call.name = "register_agent" /\ call.step = 2 ->
                /\ redis' = [redis EXCEPT !.heartbeat[s] = call.at]
                /\ Return(c, "success", s)
                /\ UNCHANGED mcp_history
           [] call.name = "unregister_agent" /\ call.step = 1 ->
                /\ redis' = [redis EXCEPT !.agents[s] = NoAgent]
                /\ Await(c)
           [] call.name = "unregister_agent" /\ call.step = 2 ->
                /\ redis' = [redis EXCEPT !.heartbeat[s] = NoneInt]
                /\ Await(c)
           [] call.name = "unregister_agent" /\ call.step = 3 ->
                /\ redis' = [redis EXCEPT !.todos[s] = {}]
                /\ Await(c)
           [] call.name = "unregister_agent" /\ call.step = 4 ->
                /\ redis' = [redis EXCEPT !.messages[s] = <<>>]
                /\ ReturnUnregistered(c, s)
           [] call.name = "heartbeat" ->
                /\ redis' = [redis EXCEPT !.heartbeat[s] = call.at]
                /\ Return(c, "success", Null)
                /\ UNCHANGED mcp_history
           [] call.name = "list_active_agents" ->
                /\ Return(c, "success", {a \in Sessions : redis.agents[a] # NoAgent})
                /\ UNCHANGED <<redis, mcp_history>>
           [] call.name = "add_todo" ->
                /\ redis' = [redis EXCEPT !.todos[s] =
                               hset_todo(@, [id |-> call.todo_id, task |-> call.task,
                                             status |-> "pending"])]
                /\ Return(c, "success", call.todo_id)
                /\ UNCHANGED mcp_history
           [] call.name = "update_todo" /\ call.step = 1 ->
                IF \E t \in redis.todos[s] : t.id = call.todo_id
                THEN /\ in_flight' = [in_flight EXCEPT ![c] =
                                        [@ EXCEPT !.step = 2, !.at = clock,
                                                  !.todo_data = CHOOSE t \in redis.todos[s] :
                                                                   t.id = call.todo_id]]
                     /\ UNCHANGED <<redis, response, mcp_history>>
                ELSE /\ Return(c, "error", Null)
                     /\ UNCHANGED <<redis, mcp_history>>
           [] call.name = "update_todo" /\ call.step = 2 ->
                /\ redis' = [redis EXCEPT !.todos[s] =
                               hset_todo(@, [call.todo_data EXCEPT !.status = "completed"])]
                /\ Return(c, "success", Null)
                /\ UNCHANGED mcp_history
           [] call.name = "get_my_todos" ->
                /\ Return(c, "success", redis.todos[s])
                /\ UNCHANGED <<redis, mcp_history>>
  /\ UNCHANGED <<clock, websocket, tasks_md, other_services, scheduler>>

\* time passes: a millisecond, or two minutes
Advance(d) ==
  /\ mcp_history.ticks < MaxTicks
  /\ clock' = clock + d
  /\ mcp_history' = [mcp_history EXCEPT !.ticks = @ + 1]
  /\ UNCHANGED <<redis, in_flight, response, websocket, tasks_md, other_services, scheduler>>

\* the ids of the todos in Redis
TodoIds == UNION {{t.id : t \in redis.todos[s]} : s \in Sessions}

\* agents calling the coordination server while time passes
NextMcp ==
  \/ \E c \in Clients : \E s \in Sessions : \E t \in AgentTasks : RegisterAgent(c, s, t)
  \/ \E c \in Clients : \E s \in Sessions : UnregisterAgent(c, s)
  \/ \E c \in Clients : \E s \in Sessions : Heartbeat(c, s)
  \/ \E c \in Clients : ListActiveAgents(c)
  \/ \E c \in Clients : \E s \in Sessions : \E task \in TodoTexts : AddTodo(c, s, task)
  \/ \E c \in Clients : \E s \in Sessions : \E todo_id \in TodoIds : UpdateTodo(c, s, todo_id)
  \/ \E c \in Clients : \E s \in Sessions : GetMyTodos(c, s)
  \/ \E c \in Clients : RedisCommand(c)
  \/ \E d \in {1, TwoMinutes} : Advance(d)

SpecMcp == InitUpdate /\ [][NextMcp]_vars

\* ------------------------------------------------------ WebSocketManager
\* list.remove: the list without its first occurrence of x
remove(list, x) ==
  LET k == CHOOSE k \in 1..Len(list) : list[k] = x /\ \A j \in 1..(k - 1) : list[j] # x
  IN  SubSeq(list, 1, k - 1) \o SubSeq(list, k + 1, Len(list))

disconnect(list, websocket_) ==
  IF websocket_ \in Range(list) THEN remove(list, websocket_) ELSE list

RECURSIVE disconnect_all(_, _)
disconnect_all(list, disconnected) ==
  IF disconnected = <<>> THEN list
  ELSE disconnect_all(disconnect(list, Head(disconnected)), Tail(disconnected))

\* websocket_endpoint accepts a connection and stores it
Connect(s) ==
  /\ s \notin Range(active_connections)
  /\ s \notin closed
  /\ received[s] = <<>>
  /\ active_connections' = Append(active_connections, s)
  /\ UNCHANGED <<received, closed, broadcasts, sending, audience, tasks_md, mcp, other_services, scheduler>>

\* the client of a websocket goes away: send_text raises from now on
Close(s) ==
  /\ s \in Range(active_connections)
  /\ s \notin closed
  /\ closed' = closed \cup {s}
  /\ UNCHANGED <<active_connections, received, broadcasts, sending, audience, tasks_md, mcp, other_services, scheduler>>

\* websocket_endpoint is cancelled or fails in its sleep and disconnects
EndpointDisconnect(s) ==
  /\ s \in Range(active_connections)
  /\ active_connections' = disconnect(active_connections, s)
  /\ closed' = closed \cup {s}
  /\ UNCHANGED <<received, broadcasts, sending, audience, tasks_md, mcp, other_services, scheduler>>

\* broadcast(message) up to its first await: nothing to do without
\* connections, else the loop takes the first connection and awaits send_text
BroadcastCall(c) ==
  /\ broadcasts[c] = NoBroadcast
  /\ Len(audience) < MaxBroadcasts
  /\ audience' = Append(audience, Range(active_connections))
  /\ broadcasts' =
       IF active_connections = <<>> THEN broadcasts
       ELSE [broadcasts EXCEPT ![c] =
               [message |-> Len(audience) + 1, connection |-> active_connections[1],
                i |-> 1, disconnected |-> <<>>]]
  /\ sending' =
       IF active_connections = <<>> THEN sending
       ELSE [sending EXCEPT ![active_connections[1]] = Append(@, c)]
  /\ UNCHANGED <<active_connections, received, closed, tasks_md, mcp, other_services, scheduler>>

\* the awaited send_text returns or raises, a websocket serving its senders
\* in the order they called; the loop goes on to the next connection of the
\* list as it is now, and after the last one the connections that raised
\* are removed
BroadcastSend(c) ==
  /\ broadcasts[c] # NoBroadcast
  /\ Head(sending[broadcasts[c].connection]) = c
  /\ LET b == broadcasts[c]
         raised == b.connection \in closed
         disconnected == IF raised THEN Append(b.disconnected, b.connection)
                         ELSE b.disconnected
     IN  /\ received' = IF raised THEN received
                        ELSE [received EXCEPT ![b.connection] = Append(@, b.message)]
         /\ IF b.i < Len(active_connections)
            THEN /\ broadcasts' = [broadcasts EXCEPT ![c] =
                                     [b EXCEPT !.connection = active_connections[b.i + 1],
                                               !.i = b.i + 1,
                                               !.disconnected = disconnected]]
                 /\ sending' = [s \in Sockets |->
                                 IF s = active_connections[b.i + 1]
                                 THEN Append(IF s = b.connection THEN Tail(sending[s])
                                             ELSE sending[s], c)
                                 ELSE IF s = b.connection THEN Tail(sending[s])
                                 ELSE sending[s]]
                 /\ UNCHANGED active_connections
            ELSE /\ broadcasts' = [broadcasts EXCEPT ![c] = NoBroadcast]
                 /\ sending' = [sending EXCEPT ![b.connection] = Tail(@)]
                 /\ active_connections' = disconnect_all(active_connections, disconnected)
  /\ UNCHANGED <<closed, audience, tasks_md, mcp, other_services, scheduler>>

\* clients connecting and leaving while the orchestrator loop and an API
\* handler broadcast
NextBroadcast ==
  \/ \E s \in Sockets : Connect(s)
  \/ \E s \in Sockets : Close(s)
  \/ \E s \in Sockets : EndpointDisconnect(s)
  \/ \E c \in Callers : BroadcastCall(c)
  \/ \E c \in Callers : BroadcastSend(c)

SpecBroadcast == InitUpdate /\ [][NextBroadcast]_vars

\* ------------------------------------------------------- resolve_gitignore
\* the lines the .gitignore files are made of, in the order Python compares
\* strings ("" < "# Node" < ... < "dist/" < "dist/ " < "node_modules/")
GitLines ==
  <<"", "# Node", "# Python", "__pycache__/", "dist/", "dist/ ", "node_modules/">>

\* ord: the place of a line in that order
ord(line) == CHOOSE i \in 1..Len(GitLines) : GitLines[i] = line

\* str.strip()
strip(line) == IF line = "dist/ " THEN "dist/" ELSE line

\* str.startswith('#')
is_comment(line) == line \in {"# Node", "# Python"}

\* sorted(lines) of a set or a list of lines
sorted_lines(lines) == sorted(lines, [l \in Range(GitLines) |-> <<ord(l), 0>>])

\* text.split('\n') of a file whose lines all end with a newline
split_lines(file) == Append(file, "")

\* the loop that groups the sorted lines: categories is the dict, as the
\* list of its keys in insertion order with their entries
RECURSIVE group_by_category(_, _, _)
group_by_category(lines, current_category, categories) ==
  IF lines = <<>> THEN categories
  ELSE LET line == strip(lines[1])
       IN  IF line = ""
             THEN group_by_category(Tail(lines), current_category, categories)
           ELSE IF is_comment(line)
             THEN group_by_category(Tail(lines), line, categories)
           ELSE IF \E i \in 1..Len(categories) : categories[i].category = current_category
             THEN group_by_category(Tail(lines), current_category,
                    [i \in 1..Len(categories) |->
                       IF categories[i].category = current_category
                         THEN [categories[i] EXCEPT !.entries = Append(@, line)]
                         ELSE categories[i]])
           ELSE group_by_category(Tail(lines), current_category,
                    Append(categories, [category |-> current_category,
                                        entries |-> <<line>>]))

\* the file written from the dict
RECURSIVE write_categories(_)
write_categories(categories) ==
  IF categories = <<>> THEN <<>>
  ELSE (IF categories[1].category # "General"
          THEN <<"", categories[1].category>> ELSE <<>>)
       \o sorted_lines(categories[1].entries)
       \o write_categories(Tail(categories))

resolve_gitignore(ours, theirs) ==
  LET all_lines == Range(split_lines(ours)) \cup Range(split_lines(theirs))
  IN  write_categories(group_by_category(Filter(GitLines, all_lines), "General", <<>>))

\* .gitignore files of up to MaxLines lines, no line twice
MaxLines == 3

GitFiles ==
  {f \in UNION {[1..n -> Range(GitLines) \ {""}] : n \in 0..MaxLines} :
     \A i, j \in 1..Len(f) : i # j => f[i] # f[j]}

InitGitignore ==
  /\ Idle
  /\ WebSocketManager /\ NoTasksFile /\ AgentCommunicationServer
  /\ FileCoordination /\ EmptyRedis /\ NoMergeAttempt
  /\ conflict \in {[base |-> <<>>, ours |-> o, theirs |-> t] : o, t \in GitFiles}
  /\ resolved = NotResolved

ResolveGitignore ==
  /\ resolved = NotResolved
  /\ resolved' = [returned |-> "True",
                   file |-> resolve_gitignore(conflict.ours, conflict.theirs)]
  /\ UNCHANGED <<conflict, beside_resolution>>

NextGitignore == ResolveGitignore

SpecGitignore == InitGitignore /\ [][NextGitignore]_vars

\* ---------------------------------------------------- resolve_package_json
\* a JSON object is a function from its keys to its values; {} is <<>>
\* {**b, **a}: the left operand wins
merge_dicts_left_wins(a, b) ==
  [k \in DOMAIN a \cup DOMAIN b |-> IF k \in DOMAIN a THEN a[k] ELSE b[k]]

\* {**a, **b}
merge_dicts(a, b) ==
  [k \in DOMAIN a \cup DOMAIN b |-> IF k \in DOMAIN b THEN b[k] ELSE a[k]]

\* obj.get(key, {})
get(obj, key) == IF key \in DOMAIN obj THEN obj[key] ELSE <<>>

\* obj with obj[key] = value
set_item(obj, key, value) ==
  [k \in DOMAIN obj \cup {key} |-> IF k = key THEN value ELSE obj[k]]

\* the manifest json.dump writes
resolve_package_json(base_json, our_json, their_json) ==
  LET deps(dep_type) == merge_dicts(merge_dicts(get(base_json, dep_type),
                                                get(our_json, dep_type)),
                                    get(their_json, dep_type))
      scripts == merge_dicts(get(our_json, "scripts"), get(their_json, "scripts"))
  IN  set_item(set_item(set_item(our_json, "dependencies", deps("dependencies")),
                        "devDependencies", deps("devDependencies")),
               "scripts", scripts)

\* the objects with keys among K and values among V
Dicts(K, V) == UNION {[D -> V] : D \in SUBSET K}

\* manifests: a name, react in one of two versions or not at all, axios or
\* not, jest as a devDependency or none, a test script or none; each
\* section may be missing
Manifests ==
  {merge_dicts(merge_dicts(merge_dicts([k \in {"name"} |-> "app"], d), v), sc) :
     d \in Dicts({"dependencies"},
                 {merge_dicts(r, a) : r \in Dicts({"react"}, {"^17.0.0", "^18.0.0"}),
                                      a \in Dicts({"axios"}, {"^1.6.0"})}),
     v \in Dicts({"devDependencies"}, Dicts({"jest"}, {"^29.0.0"})),
     sc \in Dicts({"scripts"}, Dicts({"test"}, {"jest", "vitest"}))}

\* the stage-1 version: none (the file was added on both sides) or a manifest
\* with dependencies only
BaseManifests ==
  {<<>>} \cup {m \in Manifests : DOMAIN m = {"name", "dependencies"}}

InitPackageJson ==
  /\ Idle
  /\ WebSocketManager /\ NoTasksFile /\ AgentCommunicationServer
  /\ FileCoordination /\ EmptyRedis /\ NoMergeAttempt
  /\ conflict \in {[base |-> b, ours |-> o, theirs |-> t] :
                      b \in BaseManifests, o \in Manifests, t \in Manifests}
  /\ resolved = NotResolved

ResolvePackageJson ==
  /\ resolved = NotResolved
  /\ resolved' = [returned |-> "True",
                   file |-> resolve_package_json(conflict.base, conflict.ours,
                                                 conflict.theirs)]
  /\ UNCHANGED <<conflict, beside_resolution>>

NextPackageJson == ResolvePackageJson

SpecPackageJson == InitPackageJson /\ [][NextPackageJson]_vars

\* -------------------------------------------------- merge_task, with git
\* the keys of conflict_resolvers, and the paths the branches touch
conflict_resolvers == {"package.json", ".gitignore", "README.md"}
MergePaths == {"package.json", ".gitignore", "src/app.py"}

\* the two-letter codes git status --porcelain gives an unmerged path:
\* UU both modified, AA both added, UD deleted by them
UnmergedCodes == {"UU", "AA", "UD"}

\* how `git merge <branch> --no-ff` ends: with a merge commit, with
\* "Already up to date" (both return code 0), with conflicts, or refused
\* before a merge starts (the branch is gone, local changes in the way)
MergeEnds == {"merged", "up to date", "conflict", "refused"}

\* a refused merge or one that went through leaves no unmerged path and
\* calls no resolver; a conflict leaves at least one
Attempts ==
  {a \in [merge : MergeEnds,
           status : UNION {[D -> UnmergedCodes] : D \in SUBSET MergePaths},
           resolvers : UNION {[D -> BOOLEAN] : D \in SUBSET (MergePaths \cap conflict_resolvers)},
           commit : BOOLEAN] :
     /\ (a.merge = "conflict") = (DOMAIN a.status # {})
     /\ DOMAIN a.resolvers = {f \in DOMAIN a.status \cap conflict_resolvers : a.status[f] = "UU"}
     /\ a.merge # "conflict" => ~a.commit}

\* merge_task: what it returns, whether main contains the branch
\* afterwards, whether the repository is left in the middle of a merge and
\* with which unmerged paths
git_merge_task(a) ==
  IF a.merge \in {"merged", "up to date"}
    THEN [returned |-> "True", contains |-> TRUE, merging |-> FALSE, unmerged |-> {}]
  ELSE
    LET conflicts == {f \in DOMAIN a.status : a.status[f] = "UU"}
        all_resolved == \A f \in conflicts \cap conflict_resolvers : a.resolvers[f]
        added == {f \in conflicts : f \in conflict_resolvers => a.resolvers[f]}
        left == DOMAIN a.status \ added
        committed == a.merge = "conflict" /\ left = {} /\ a.commit
    IN  IF all_resolved
          THEN IF committed
                 THEN [returned |-> "True", contains |-> TRUE, merging |-> FALSE,
                       unmerged |-> {}]
                 ELSE [returned |-> "True", contains |-> FALSE,
                       merging |-> a.merge = "conflict", unmerged |-> left]
          ELSE [returned |-> "False", contains |-> FALSE, merging |-> FALSE,
                unmerged |-> {}]

InitMergeTask ==
  /\ Idle
  /\ WebSocketManager /\ NoTasksFile /\ AgentCommunicationServer
  /\ FileCoordination /\ EmptyRedis /\ NoConflictedFile
  /\ attempt \in Attempts
  /\ merge_result = NotMerged

MergeTask ==
  /\ merge_result = NotMerged
  /\ merge_result' = git_merge_task(attempt)
  /\ UNCHANGED <<attempt, beside_git_merge>>

NextMergeTask == MergeTask

SpecMergeTask == InitMergeTask /\ [][NextMergeTask]_vars

\* ------------------------------------------------------------ Redis keys
\* HSET key field value, HDEL key field, DEL key
hset(db, key, field, value) ==
  [db EXCEPT ![key] = {e \in @ : e.field # field} \cup {[field |-> field, value |-> value]}]

hdel(db, key, field) == [db EXCEPT ![key] = {e \in @ : e.field # field}]

delete(db, key) == [db EXCEPT ![key] = {}]

KeyCall(name, p, s) ==
  /\ key_call.calls < MaxCalls
  /\ key_call' = [name |-> name, project_id |-> p, session_name |-> s,
                   calls |-> key_call.calls + 1]
  /\ UNCHANGED beside_project_keys

\* register_agent
KeyedRegisterAgent(p, s) ==
  /\ KeyCall("register_agent", p, s)
  /\ keyspace' = hset(hset(keyspace, _get_key(p, <<"agents">>), s, "agent"),
                       _get_key(p, <<"heartbeat">>), s, "heartbeat")

\* unregister_agent
KeyedUnregisterAgent(p, s) ==
  /\ KeyCall("unregister_agent", p, s)
  /\ keyspace' = delete(delete(hdel(hdel(keyspace, _get_key(p, <<"agents">>), s),
                                     _get_key(p, <<"heartbeat">>), s),
                                _get_key(p, <<"todos">> \o s)),
                         _get_key(p, <<"messages">> \o s))

\* heartbeat
KeyedHeartbeat(p, s) ==
  /\ KeyCall("heartbeat", p, s)
  /\ keyspace' = hset(keyspace, _get_key(p, <<"heartbeat">>), s, "heartbeat")

\* add_todo
KeyedAddTodo(p, s, todo_id) ==
  /\ KeyCall("add_todo", p, s)
  /\ keyspace' = hset(keyspace, _get_key(p, <<"todos">> \o s), todo_id, "todo")

\* mark_task_completed
KeyedMarkTaskCompleted(p, s, task_id) ==
  /\ KeyCall("mark_task_completed", p, s)
  /\ keyspace' = hset(keyspace, _get_key(p, <<"completed_tasks">>), task_id, "completion")

\* list_active_agents and get_my_todos only read
KeyedRead(name, p, s) ==
  /\ KeyCall(name, p, s)
  /\ UNCHANGED keyspace

NextKeys ==
  \/ \E p \in KeyProjects, s \in KeySessions : KeyedRegisterAgent(p, s)
  \/ \E p \in KeyProjects, s \in KeySessions : KeyedUnregisterAgent(p, s)
  \/ \E p \in KeyProjects, s \in KeySessions : KeyedHeartbeat(p, s)
  \/ \E p \in KeyProjects, s \in KeySessions, i \in KeyTodos : KeyedAddTodo(p, s, i)
  \/ \E p \in KeyProjects, s \in KeySessions, t \in KeyTasks : KeyedMarkTaskCompleted(p, s, t)
  \/ \E p \in KeyProjects, s \in KeySessions, n \in {"list_active_agents", "get_my_todos"} :
        KeyedRead(n, p, s)

SpecKeys == InitUpdate /\ [][NextKeys]_vars

\* ------------------------------------------------------ file coordination
LockCall(name, p, s, f, status_, holder) ==
  [name |-> name, project_id |-> p, session_name |-> s, file_path |-> f,
   status |-> status_, locked_by |-> holder]

\* announce_file_change that sets the key without reading it first
announce_file_change_overwriting(store, p, s, f) ==
  [store EXCEPT ![p][f] = [locked_by |-> s, ttl |-> LockTtl]]

\* announce_file_change: acquires the lock with a TTL, or returns the holder
announce_file_change(store, p, s, f) ==
  IF store[p][f].locked_by \in {Null, s}
  THEN [store EXCEPT ![p][f] = [locked_by |-> s, ttl |-> LockTtl]]
  ELSE store

AnnounceFileChange(p, s, f) ==
  /\ file_locks' = announce_file_change(file_locks, p, s, f)
  /\ lock_call' = IF file_locks[p][f].locked_by \in {Null, s}
                     THEN LockCall("announce_file_change", p, s, f, "success", s)
                     ELSE LockCall("announce_file_change", p, s, f, "locked",
                                   file_locks[p][f].locked_by)
  /\ UNCHANGED beside_file_coordination

\* release_file_lock: releases only if the current holder is the session
release_file_lock(store, p, s, f) ==
  IF store[p][f].locked_by = s THEN [store EXCEPT ![p][f] = NoLock] ELSE store

ReleaseFileLock(p, s, f) ==
  /\ file_locks' = release_file_lock(file_locks, p, s, f)
  /\ lock_call' = LockCall("release_file_lock", p, s, f, "success",
                            file_locks'[p][f].locked_by)
  /\ UNCHANGED beside_file_coordination

\* heartbeat: renews the TTL of the locks the session holds in the project
RenewLocks(p, s) ==
  /\ file_locks' = [file_locks EXCEPT ![p] =
                      [f \in LockPaths |->
                        IF file_locks[p][f].locked_by = s
                        THEN [locked_by |-> s, ttl |-> LockTtl]
                        ELSE file_locks[p][f]]]
  /\ lock_call' = LockCall("heartbeat", p, s, Null, "success", Null)
  /\ UNCHANGED beside_file_coordination

\* the store's clock: a lock whose TTL runs out expires
ExpireLocks ==
  /\ \E p \in ProjectIds, f \in LockPaths : file_locks[p][f].locked_by # Null
  /\ file_locks' = [p \in ProjectIds |-> [f \in LockPaths |->
                      IF file_locks[p][f].locked_by = Null \/ file_locks[p][f].ttl = 1
                      THEN NoLock
                      ELSE [file_locks[p][f] EXCEPT !.ttl = @ - 1]]]
  /\ lock_call' = LockCall("expire", Null, Null, Null, "none", Null)
  /\ UNCHANGED beside_file_coordination

NextFileLocks ==
  \/ \E p \in ProjectIds, s \in Sessions, f \in LockPaths : AnnounceFileChange(p, s, f)
  \/ \E p \in ProjectIds, s \in Sessions, f \in LockPaths : ReleaseFileLock(p, s, f)
  \/ \E p \in ProjectIds, s \in Sessions : RenewLocks(p, s)
  \/ ExpireLocks

SpecFileLocks == InitUpdate /\ [][NextFileLocks]_vars


\* ================================================================ claims
in_progress_tasks == {t \in Tasks : status[t] = "in_progress"}

NewCommits == SubSeq(main', Len(main) + 1, Len(main'))

\* C1: the number of in_progress tasks never exceeds
\* min(max_concurrent_agents, project.max_agents).
C1_ConcurrencyCap ==
  Cardinality(in_progress_tasks) <= min(max_concurrent_agents, max_agents)

\* the spawn stage has filled every slot and left an up_next task waiting
C1_Witness ==
  /\ lastOp = "spawn"
  /\ Cardinality(in_progress_tasks) = min(max_concurrent_agents, max_agents)
  /\ \E t \in Tasks : status[t] = "up_next"

\* C2: any two distinct in_progress tasks have disjoint exclusive_files, and
\* the exclusive_files of one are disjoint from the shared_files of the
\* other, also when both were up_next candidates of the same tick.
C2_NoFileConflict ==
  \A A \in in_progress_tasks :
     \A B \in in_progress_tasks \ {A} :
        /\ exclusive_files(A) \cap exclusive_files(B) = {}
        /\ exclusive_files(A) \cap shared_files(B) = {}

\* C6: every merge commit on main was made while merge_lock was held.
C6_MergesUnderLock ==
  \A i \in 1..Len(main) : main[i].lock

\* C7: _manage_task_queue promotes an unclaimed task to up_next only if
\* every id in its dependencies names a task that is completed or merged.
C7_PromotionNeedsDependencies ==
  [][lastOp' = "manage" =>
       \A t \in Tasks :
          status[t] = "unclaimed" /\ status'[t] = "up_next" =>
            \A dep_id \in dependencies[t] :
               /\ TaskWithId(dep_id) # 0
               /\ status[TaskWithId(dep_id)] \in {"completed", "merged"}]_vars
\* the status changes the task lifecycle allows
LifecycleSteps ==
  { <<"unclaimed", "up_next">>, <<"up_next", "in_progress">>,
    <<"in_progress", "completed">>, <<"completed", "merged">>,
    <<"in_progress", "up_next">> }

\* C3: every status change the scheduler or the merge queue stores is one
\* of unclaimed->up_next, up_next->in_progress, in_progress->completed,
\* completed->merged or the rollback in_progress->up_next.
C3_LifecycleOnly ==
  [][lastOp' \in {"manage", "spawn", "check", "merge"} =>
       \A i \in 1..Len(writes') :
          <<writes'[i].old, writes'[i].new>> \in LifecycleSteps]_vars

\* C4: whenever process_queue commits the merge of a task, every id in the
\* task's dependencies names a task that is merged at that moment.
C4_MergeNeedsMergedDependencies ==
  [][\A i \in 1..Len(NewCommits) :
        NewCommits[i].lock =>
          \A dep_id \in dependencies[NewCommits[i].task] :
             /\ TaskWithId(dep_id) # 0
             /\ \/ status'[TaskWithId(dep_id)] = "merged"
                \/ \E j \in 1..(Len(main) + i - 1) :
                      main'[j].task = TaskWithId(dep_id)]_vars

\* the completion notices a status check finds and consumes: those of an
\* in_progress task, naming the task's session, gone after the check
ConsumedNotices ==
  {t \in Tasks :
     /\ status[t] = "in_progress"
     /\ \E i \in 1..Len(completed_tasks) :
          /\ completed_tasks[i].task_id = t
          /\ completed_tasks[i].session_name = session[t]
     /\ \A i \in 1..Len(completed_tasks') : completed_tasks'[i].task_id # t}

\* C5: a status check that finds the completion notice of an in_progress
\* task completes the task exactly once and deletes the notice; when the
\* check ends the task is completed or merged, not rewound to up_next.
C5_NoticeCompletesOnce ==
  [][lastOp' = "check" =>
       \A t \in ConsumedNotices :
          /\ status'[t] \in {"completed", "merged"}
          /\ Cardinality({i \in 1..Len(writes') :
                            writes'[i].task = t /\ writes'[i].new = "completed"}) = 1
          /\ Cardinality({i \in 1..Len(events') :
                            events'[i].task = t /\ events'[i].type = "task_completed"}) = 1
          /\ \A i \in 1..Len(writes') :
                writes'[i].task = t => writes'[i].new # "up_next"]_vars
\* what the status check does with a task whose session died without work
ResetByCheck(t) ==
  /\ status'[t] = "up_next"
  /\ session'[t] = None
  /\ \E i \in 1..Len(events') :
        events'[i] = Event("task_status_changed", t, "up_next")
  /\ \A i \in 1..Len(events') :
        ~(events'[i].task = t /\ events'[i].type = "task_completed")

\* C9 as stated: the next status check puts an in_progress task whose
\* session is gone, with no commits, notice or COMPLETED file, back to
\* up_next without a session, emits task_status_changed(up_next) and no
\* task_completed; the following tick still holds the task as up_next when
\* it comes to spawn.
C9_ResetAndEligible ==
  [][/\ lastOp' = "check" => \A t \in DiedWithoutWork : ResetByCheck(t)
     /\ lastOp' = "manage" =>
          \A t \in died : status'[t] = "up_next" /\ session'[t] = None]_vars

\* C9 amended: as above, except that the queue management of the following
\* tick may demote the task to unclaimed when more tasks are up_next than
\* min(max_concurrent_agents, project.max_agents).
C9_ResetThenEligibleOrDemoted ==
  [][/\ lastOp' = "check" => \A t \in DiedWithoutWork : ResetByCheck(t)
     /\ lastOp' = "manage" =>
          \A t \in died :
             /\ session'[t] = None
             /\ \/ status'[t] = "up_next"
                \/ /\ status'[t] = "unclaimed"
                   /\ Cardinality({u \in Tasks : status[u] = "up_next"})
                        > min(max_concurrent_agents, max_agents)]_vars

\* a status check has just reset a task whose session died without work
C9_Witness ==
  /\ lastOp = "check"
  /\ \E t \in died :
        /\ status[t] = "up_next"
        /\ session[t] = None
        /\ \E i \in 1..Len(events) :
              events[i] = Event("task_status_changed", t, "up_next")

\* C10: when provisioning the worktree or starting the session fails for a
\* selected up_next task, the task stays up_next with no session, an
\* agent_spawn_failed event is broadcast, and every other task selected in
\* the tick is still attempted.
C10_FailedSpawnKeepsUpNext ==
  [][lastOp' = "spawn" =>
       \A t \in Range(tasks_to_spawn) :
          LET failed  == \E i \in 1..Len(events') :
                            events'[i].task = t /\ events'[i].type = "agent_spawn_failed"
              started == \E i \in 1..Len(events') :
                            events'[i].task = t /\ events'[i].type = "agent_spawned"
          IN  /\ failed \/ started
              /\ failed => /\ ~started
                           /\ status'[t] = "up_next"
                           /\ session'[t] = None
                           /\ \A i \in 1..Len(writes') : writes'[i].task # t]_vars

\* a spawn stage in which one task failed and a later one was started
C10_Witness ==
  /\ lastOp = "spawn"
  /\ \E i \in 1..Len(events), j \in 1..Len(events) :
        /\ i < j
        /\ events[i].type = "agent_spawn_failed"
        /\ events[j].type = "agent_spawned"
        /\ events[i].task # events[j].task
        /\ status[events[i].task] = "up_next"
        /\ session[events[i].task] = None
\* the tasks t depends on, directly
DependenciesOf(t) ==
  {TaskWithId(dep_id) : dep_id \in dependencies[t]} \ {0}

\* C8 as stated, for the chain T1 <- T2 <- T3 with max_agents = 3: a task is
\* in_progress only when the task it depends on is merged, and the merge
\* commits on main are in the order T1, T2, T3.
C8_ChainRunsAfterMerge ==
  /\ \A t \in in_progress_tasks :
        \A u \in DependenciesOf(t) : status[u] = "merged"
  /\ \A i \in 1..Len(main), j \in 1..Len(main) :
        i < j => main[i].task <= main[j].task
\* C11: every run of process_queue examines the queued tasks in
\* non-decreasing merge_order and, among equal merge_order, in non-increasing
\* priority, whatever the order they were enqueued in
C11_DrainInOrder ==
  \A k \in 1..Len(drains) :
    \A i \in 1..Len(drains[k]), j \in 1..Len(drains[k]) :
      i < j =>
        LET a == drains[k][i].task
            b == drains[k][j].task
        IN  \/ merge_order[a] < merge_order[b]
            \/ merge_order[a] = merge_order[b] /\ priority[a] >= priority[b]

\* task 1 was enqueued and examined alone, then task 3 was enqueued behind
\* it and examined before it
C11_Witness ==
  /\ Len(drains) = 2
  /\ [i \in 1..Len(drains[1]) |-> drains[1][i].task] = <<1>>
  /\ [i \in 1..Len(drains[2]) |-> drains[2][i].task] = <<3, 1>>
\* C12: when merge_task returns False for a queued task, a structured
\* resolver having failed, main is where it was before the call, a task
\* stored as completed is still stored as completed, and the task is
\* still in the queue when the operation ends
C12_AbortLeavesMainAndTask ==
  \A k \in 1..Len(drains) :
    \A i \in 1..Len(drains[k]) :
      LET e == drains[k][i]
      IN  e.result = "aborted" =>
            /\ ~e.moved
            /\ e.before = "completed" => e.after = "completed"
            /\ e.task \in Range(queue)

\* merge_task returned False for a completed task whose branch has commits
\* ahead of main
C12_Witness ==
  \E k \in 1..Len(drains) :
    \E i \in 1..Len(drains[k]) :
      /\ drains[k][i].result = "aborted"
      /\ drains[k][i].before = "completed"
      /\ drains[k][i].task \in commits
      /\ status[drains[k][i].task] = "completed"
\* C13: once process_queue has merged a task, the task is stored with status
\* merged and is out of the queue (so no later tick enqueues or merges it
\* again)
C13_MergedIsStored ==
  \A k \in 1..Len(drains) :
    \A i \in 1..Len(drains[k]) :
      drains[k][i].result = "merged" =>
        /\ status[drains[k][i].task] = "merged"
        /\ drains[k][i].task \notin Range(queue)
\* the tasks the process_queue runs recorded in d examined
ExaminedIn(d) == UNION {{d[k][i].task : i \in 1..Len(d[k])} : k \in 1..Len(d)}

\* C14: every tick drains the merge queue: a task that is in the queue when
\* the tick ends, waiting for a dependency that is not merged yet, was
\* examined by the tick's status check or by its merge stage
C14_EveryTickDrains ==
  [][(lastOp' = "merge" /\ auto_merge /\ merge_queue # "None") =>
       \A t \in Range(queue') :
          ~deps_merged(status', t) => t \in ExaminedIn(drains) \cup ExaminedIn(drains')]_vars
\* C15: with coordination on, process_queue goes on to merge a task only if
\* no file changed on its branch is locked by a session other than its own,
\* unless the holder's reply contains an affirmative phrase
C15_LockedFileDefers ==
  \A i \in 1..Len(can_merge) :
    LET c == can_merge[i]
    IN  (c.coordination_enabled /\ c.result) =>
          \A f \in get_modified_files(c.task) :
             \/ locks[f].locked_by \in {None, SessionName(c.task)}
             \/ locks[f].reply \cap AffirmativePhrases # {}
\* C16: when two tasks declare the same exclusive file and one of them has
\* been started and is not merged yet, the other, waiting as up_next, is not
\* started before the first is merged
C16_WaitsUntilMerged ==
  [][\A x \in Tasks : \A y \in Tasks \ {x} :
       ( /\ exclusive_files(x) \cap exclusive_files(y) # {}
         /\ status[x] \in {"in_progress", "completed"}
         /\ status[y] = "up_next"
         /\ status'[y] = "in_progress" )
       => status'[x] = "merged"]_vars
\* the tasks t depends on, directly or through other tasks within n steps
RECURSIVE DependsOn(_, _)
DependsOn(t, n) ==
  IF n = 0 THEN {}
  ELSE LET direct == {TaskWithId(dep_id) : dep_id \in dependencies[t]} \ {0}
       IN  direct \cup UNION {DependsOn(d, n - 1) : d \in direct}

\* the tasks on a dependency cycle
OnCycle == {t \in Tasks : t \in DependsOn(t, Cardinality(Tasks))}

\* C17: a task on a dependency cycle (a task that lists itself included),
\* stored as unclaimed, is never promoted: it stays unclaimed
C17_CycleNeverPromoted == \A t \in OnCycle : status[t] = "unclaimed"

\* queue management has just run with every slot free, the free task
\* being completed already, and has left the cycle's tasks unclaimed
C17_Witness ==
  /\ OnCycle # {}
  /\ lastOp = "manage"
  /\ \A t \in Tasks : status[t] \notin {"up_next", "in_progress"}
  /\ \E t \in Tasks \ OnCycle : status[t] \in {"completed", "merged"}
\* C18: every in_progress task has a session name, no two tasks hold the
\* same session name, and a spawn for a session name that already has a
\* live session leaves that session and its status file as they were
C18_SessionsDistinctAndUndisturbed ==
  [][/\ \A t \in Tasks : status'[t] = "in_progress" => session'[t] # None
     /\ \A t \in Tasks : \A u \in Tasks \ {t} :
           session'[t] # None => session'[t] # session'[u]
     /\ lastOp' = "spawn" =>
           \A t \in Range(tasks_to_spawn) :
              SessionName(t) \in tmux =>
                /\ SessionName(t) \in tmux'
                /\ status_file'[SessionName(t)] = status_file[SessionName(t)]]_vars
\* C19: when stop() returns, the tick that was in progress has run all its
\* stages, running is false and current_project_id is cleared; and the loop
\* runs no stage once running is false
C19_StopCompletesTick ==
  [][/\ lastOp' = "stop" =>
          /\ pc' = "manage"
          /\ ~running'
          /\ current_project_id' = "None"
     /\ ~running => lastOp' \notin {"manage", "spawn", "check", "merge"}]_vars
\* the lifecycle stage a status event announces, 0 for any other event
Stage(e) ==
  CASE e.type = "task_status_changed" /\ e.status = "up_next" -> 1
    [] e.type = "task_status_changed" /\ e.status = "in_progress" -> 2
    [] e.type = "task_completed" -> 3
    [] e.type = "task_merged" -> 4
    [] OTHER -> 0

\* C20: the status events an operation emits for one task come in the order
\* up_next, in_progress, completed, merged: none is followed by an event of
\* an earlier stage, and task_completed is not emitted twice
C20_EventsInLifecycleOrder ==
  [][\A i \in 1..Len(events') : \A j \in 1..Len(events') :
       ( /\ i < j
         /\ events'[i].task = events'[j].task
         /\ Stage(events'[i]) # 0
         /\ Stage(events'[j]) # 0 )
       => Stage(events'[i]) < Stage(events'[j])]_vars
\* the position of message m in what a websocket received, 0 if it is not there
Position(seq, m) ==
  IF m \in Range(seq) THEN CHOOSE k \in 1..Len(seq) : seq[k] = m ELSE 0

\* the broadcast call of message m has returned
Returned(m) == m <= Len(audience) /\ \A c \in Callers : broadcasts[c].message # m

\* C21: when broadcast(A) is called before broadcast(B), every websocket
\* connected throughout receives A before B, also when the two calls run in
\* different coroutines and while a failing websocket is removed.
C21_BroadcastsArriveInOrder ==
  \A s \in Sockets \ closed :
     \A A \in 1..Len(audience) : \A B \in 1..Len(audience) :
        A < B /\ s \in audience[A] \cap audience[B] =>
           /\ Position(received[s], B) > 0 =>
                 /\ Position(received[s], A) > 0
                 /\ Position(received[s], A) < Position(received[s], B)
           /\ Returned(A) /\ Returned(B) =>
                 /\ Position(received[s], A) > 0
                 /\ Position(received[s], B) > 0
\* the fields of a task that tasks.md persists
persisted(task) ==
  [task_id |-> task.task_id, status |-> task.status, branch |-> task.branch,
   session |-> task.session, description |-> task.description,
   prompt |-> task.prompt, dependencies |-> task.dependencies,
   priority |-> task.priority, merge_order |-> task.merge_order,
   exclusive_files |-> task.exclusive_files, shared_files |-> task.shared_files,
   initialization_deps |-> task.initialization_deps]

\* C22: parsing a task file, serializing the result and parsing again gives
\* the task list of the first parse on every persisted field, also for
\* tasks with zero or negative priority or merge_order.
C22_ParseSerializeParse ==
  [][last_call.op = "save_tasks" /\ last_call'.op = "get_tasks" =>
       /\ Len(loaded') = Len(loaded)
       /\ \A k \in 1..Len(loaded) : persisted(loaded'[k]) = persisted(loaded[k])]_vars
\* the tasks add_task returned that tasks.md still holds, with the task
\* get_tasks lists for each
Listed(task) ==
  {k \in 1..Len(loaded) : loaded[k].task_id = task.task_id /\ loaded[k].title = task.title}

Stored(task) ==
  \E k \in 1..Len(tasks_file) :
     tasks_file[k].task_id = str(task.task_id) /\ tasks_file[k].title = task.title

\* C23: the id add_task returns for a task is the id get_tasks lists it
\* under and update_task finds it under, whatever reads and writes came in
\* between, and distinct tasks have distinct ids.
C23_IdIsStable ==
  /\ last_call.op = "get_tasks" =>
       /\ \A a \in Range(assigned) : \A k \in Listed(a) : loaded[k].id = a.id
       /\ \A j \in 1..Len(loaded) : \A k \in 1..Len(loaded) :
             j # k => loaded[j].id # loaded[k].id
  /\ last_call.op = "update_task" =>
       \A a \in Range(assigned) :
          Stored(a) /\ last_call.id = a.id => last_call.error = Null
\* C24: across add and delete operations each add_task assigns a task_id
\* greater than every task_id assigned before, so no task_id and no branch
\* task-<task_id> is assigned twice, also after the earlier task was deleted.
C24_TaskIdNeverReused ==
  \A j \in 1..Len(assigned) : \A k \in 1..Len(assigned) :
     j < k => /\ assigned[j].task_id < assigned[k].task_id
              /\ assigned[j].branch # assigned[k].branch

\* the ids of the tasks tasks.md holds
StoredIds == {t.id : t \in Range(parse_tasks(tasks_file))}

\* C25: update_task and delete_task called with an id that matches no stored
\* task fail with a not-found error and leave the stored task list unchanged.
C25_UnknownIdIsRejected ==
  [][/\ last_call'.op \in {"update_task", "delete_task"}
     /\ last_call'.id \notin StoredIds
     => /\ last_call'.error = "ValueError"
        /\ tasks_file' = tasks_file]_vars

\* the section of a task has no priority line
NoPriorityValue(task) ==
  \E k \in 1..Len(tasks_file) :
     tasks_file[k].task_id = str(task.task_id) /\ tasks_file[k].priority = Absent

\* C26: a task without a priority value counts as priority 10: the sorted
\* task list never places it ahead of a task with a priority from 1 to 9.
C26_AbsentPriorityIsLowest ==
  last_call.op = "get_tasks" =>
     \A j \in 1..Len(loaded) : \A k \in 1..Len(loaded) :
        j < k => ~ (NoPriorityValue(loaded[j]) /\ loaded[k].priority \in 1..9)
\* Redis executes a command of client c's call of the tool `name`
Executes(c, name) == in_flight[c].name = name /\ in_flight'[c] # in_flight[c]

\* client c's call of the tool `name` returns
Returns(c, name) == in_flight[c].name = name /\ in_flight'[c] = NoToolCall

\* C27: register_agent for a session that is registered under a different
\* task_id returns an error and leaves the agent record and the heartbeat
\* of the session as they are.
C27_RegisterKeepsExistingAgent ==
  [][\A c \in Clients :
       LET call == in_flight[c]
       IN  /\ Executes(c, "register_agent")
           /\ call.step = 1
           /\ redis.agents[call.session_name] # NoAgent
           /\ redis.agents[call.session_name].task_id # call.task_id
           => /\ redis'.agents[call.session_name] = redis.agents[call.session_name]
              /\ redis'.heartbeat[call.session_name] = redis.heartbeat[call.session_name]
              /\ Returns(c, "register_agent")
              /\ response'.status = "error"]_vars

\* the registered sessions whose last heartbeat is less than two minutes old
AliveSessions ==
  {s \in Sessions : /\ redis.agents[s] # NoAgent
                    /\ redis.heartbeat[s] # NoneInt
                    /\ clock - redis.heartbeat[s] < TwoMinutes}

\* C28: list_active_agents returns exactly the registered sessions whose
\* last heartbeat is less than 2 minutes old; a session with an older
\* heartbeat or with none is not reported.
C28_ActiveMeansRecentHeartbeat ==
  [][\A c \in Clients :
       Returns(c, "list_active_agents") => response'.data = AliveSessions]_vars

\* C29: after n add_todo calls of a session and no other todo operation for
\* it, get_my_todos returns exactly n todos, one for each call with its
\* text, also when several calls fall into the same clock instant.
C29_EveryAddedTodoIsListed ==
  [][\A c \in Clients :
       LET s == in_flight[c].session_name
       IN  /\ Returns(c, "get_my_todos")
           /\ ~ mcp_history.other_todo_calls[s]
           /\ \A d \in Clients : ~ (in_flight[d].name = "add_todo" /\ in_flight[d].session_name = s)
           => /\ Cardinality(response'.data) = Len(mcp_history.added[s])
              /\ \A k \in 1..Len(mcp_history.added[s]) :
                    \E t \in response'.data : t.task = mcp_history.added[s][k]]_vars

\* C30: once unregister_agent for a session has returned, and the calls for
\* the session that were in flight with it have returned, Redis holds no
\* agent record, heartbeat, todo list or inbox for the session, unless it
\* registered again.
C30_UnregisterLeavesNothing ==
  \A s \in Sessions :
     /\ mcp_history.unregistered[s]
     /\ \A c \in Clients : in_flight[c] = NoToolCall \/ in_flight[c].session_name # s
     => /\ redis.agents[s] = NoAgent
        /\ redis.heartbeat[s] = NoneInt
        /\ redis.todos[s] = {}
        /\ redis.messages[s] = <<>>

StateOf(db, q) ==
  [agents |-> db[_get_key(q, <<"agents">>)],
   heartbeat |-> db[_get_key(q, <<"heartbeat">>)],
   completed_tasks |-> db[_get_key(q, <<"completed_tasks">>)],
   todos |-> [s \in KeySessions |-> db[_get_key(q, <<"todos">> \o s)]]]

\* C32: a coordination call made with project id p leaves the agent
\* records, heartbeats, todos and completion notices of every other
\* project as they were, whatever the project ids and session names are.
C32_OtherProjectsUntouched ==
  [][\A q \in KeyProjects :
       q # key_call'.project_id => StateOf(keyspace', q) = StateOf(keyspace, q)]_vars

\* the tasks stored with status st
WithStatus(f, st) == {t \in DOMAIN f : f[t] = st}

C34_SessionOnlyWhileRunning ==
  pc = "manage" =>
    \A t \in Tasks :
       status[t] \in {"unclaimed", "up_next", "completed", "merged"} => session[t] = None

\* C35: start(project_id) called while the orchestrator is running, or
\* with a project id no project has, raises an error and leaves running,
\* current_project_id and the merge queue as they were.
C35_RejectedStartChangesNothing ==
  [][(lastOp' = "start" /\ (running \/ start_call'.project_id \notin KnownProjects)) =>
       /\ start_call'.raised = "ValueError"
       /\ running' = running
       /\ current_project_id' = current_project_id
       /\ merge_queue' = merge_queue
       /\ queue' = queue]_vars

\* start() was refused for a project while another project was running
C35_Witness ==
  /\ lastOp = "start"
  /\ start_call.raised = "ValueError"
  /\ running
  /\ current_project_id # start_call.project_id

\* the comment header that most closely precedes line i of file, or "General"
RECURSIVE HeaderAt(_, _)
HeaderAt(file, i) ==
  IF i = 0 THEN "General"
  ELSE IF is_comment(strip(file[i])) THEN strip(file[i])
  ELSE HeaderAt(file, i - 1)

\* the entries of a file, each with its header
EntriesOf(file) ==
  {[entry |-> strip(file[i]), header |-> HeaderAt(file, i)] :
     i \in {k \in 1..Len(file) : strip(file[k]) # "" /\ ~is_comment(strip(file[k]))}}

\* C36: resolve_gitignore writes exactly the entries of ours and theirs,
\* each entry once and under the comment header that most closely precedes
\* it in the file it comes from, the entries of a group sorted.
C36_GitignoreUnionUnderHeaders ==
  resolved.returned = "True" =>
    LET out == resolved.file
        sources == EntriesOf(conflict.ours) \cup EntriesOf(conflict.theirs)
    IN  /\ {e.entry : e \in EntriesOf(out)} = {e.entry : e \in sources}
        /\ \A i, j \in 1..Len(out) :
              (i # j /\ out[i] # "" /\ ~is_comment(out[i])) => out[i] # out[j]
        /\ EntriesOf(out) \subseteq sources
        /\ \A i \in 1..(Len(out) - 1) :
              (~is_comment(out[i]) /\ out[i] # "" /\ ~is_comment(out[i + 1]) /\ out[i + 1] # "")
                => ord(out[i]) <= ord(out[i + 1])

\* C37: the manifest resolve_package_json writes has, as dependencies and as
\* devDependencies, every package of base, ours and theirs, in theirs'
\* version where theirs names it, and as scripts those of ours and theirs,
\* theirs' command where both name the script.
C37_ManifestIsUnionTheirsWins ==
  resolved.returned = "True" =>
    LET out == resolved.file
        PartOf(m, k) == IF k \in DOMAIN m THEN m[k] ELSE <<>>
    IN  /\ \A dep_type \in {"dependencies", "devDependencies"} :
              LET b == PartOf(conflict.base, dep_type)
                  o == PartOf(conflict.ours, dep_type)
                  t == PartOf(conflict.theirs, dep_type)
              IN  /\ dep_type \in DOMAIN out
                  /\ DOMAIN out[dep_type] = DOMAIN b \cup DOMAIN o \cup DOMAIN t
                  /\ \A pkg \in DOMAIN out[dep_type] :
                        IF pkg \in DOMAIN t THEN out[dep_type][pkg] = t[pkg]
                        ELSE \/ pkg \in DOMAIN o /\ out[dep_type][pkg] = o[pkg]
                             \/ pkg \in DOMAIN b /\ out[dep_type][pkg] = b[pkg]
        /\ LET o == PartOf(conflict.ours, "scripts")
               t == PartOf(conflict.theirs, "scripts")
           IN  /\ "scripts" \in DOMAIN out
               /\ DOMAIN out["scripts"] = DOMAIN o \cup DOMAIN t
               /\ \A n \in DOMAIN out["scripts"] :
                     out["scripts"][n] = IF n \in DOMAIN t THEN t[n] ELSE o[n]

\* both sides changed the version of a package of base, each side added a
\* package, and both name the test script with different commands
C37_Witness ==
  /\ resolved.returned = "True"
  /\ "dependencies" \in DOMAIN conflict.base
  /\ "dependencies" \in DOMAIN conflict.ours
  /\ "dependencies" \in DOMAIN conflict.theirs
  /\ "react" \in DOMAIN conflict.ours["dependencies"]
  /\ "react" \in DOMAIN conflict.theirs["dependencies"]
  /\ conflict.ours["dependencies"]["react"] # conflict.theirs["dependencies"]["react"]
  /\ "axios" \in DOMAIN conflict.base["dependencies"]
  /\ "axios" \notin DOMAIN conflict.ours["dependencies"]
  /\ "axios" \notin DOMAIN conflict.theirs["dependencies"]
  /\ "scripts" \in DOMAIN conflict.ours
  /\ "scripts" \in DOMAIN conflict.theirs
  /\ "test" \in DOMAIN conflict.ours["scripts"]
  /\ "test" \in DOMAIN conflict.theirs["scripts"]
  /\ conflict.ours["scripts"]["test"] # conflict.theirs["scripts"]["test"]

\* C38: the merge queue never holds two entries for the same task,
\* whatever completion signals, ticks and manual merges occur.
C38_NoTaskQueuedTwice ==
  \A i, j \in 1..Len(queue) : queue[i] = queue[j] => i = j

\* C39: merge_task returns True only if main then contains the task's
\* branch; when a conflicted path is left unresolved or the final commit
\* fails it returns False and the repository is not left in the middle of
\* a merge.
C39_TrueOnlyWhenMerged ==
  merge_result.returned # "none" =>
    /\ merge_result.returned = "True" => merge_result.contains
    /\ ~merge_result.contains =>
          /\ merge_result.returned = "False"
          /\ ~merge_result.merging
          /\ merge_result.unmerged = {}

\* C40: once every register_agent and unregister_agent call has returned,
\* each session that has an agent record has a heartbeat too, however the
\* calls interleaved.
C40_AgentRecordHasHeartbeat ==
  (\A c \in Clients : in_flight[c] = NoToolCall) =>
    \A s \in Sessions :
       redis.agents[s] # NoAgent => redis.heartbeat[s] # NoneInt

====
